---------------------------- MODULE Spec2Model ----------------------------
(***************************************************************************)
(* A model of the streaming orchestration core of nene:                    *)
(*   - pkg/bus        MessageBus: three buffered Go channels                *)
(*   - pkg/telegram   StreamState (the per-chat aggregator) and the        *)
(*                    stream consumer of TelegramChannel                   *)
(*   - pkg/agent      Session.ProcessMessage / processLoop                 *)
(*   - pkg/tool       SubagentManager.RunSync and SpawnTool.Execute        *)
(* Strings are sequences of characters (tuples of one-letter strings), so  *)
(* that concatenation and length are those of the Go strings.              *)
(***************************************************************************)
EXTENDS Integers, Sequences, FiniteSets, TLC

VARIABLES
    \* ---- pkg/bus: MessageBus
    inbound,        \* chan InboundMessage  (buffer contents, head first)
    outbound,       \* chan OutboundMessage
    stream,         \* chan StreamMessage
    closed,         \* closed[k]: channel k has been closed by Close
    closePc,        \* number of channels the running Close call has closed
    closeCalls,     \* number of Close calls begun
    closePanic,     \* a Close call panicked (close of a closed channel)
    pubPc,          \* publisher goroutine: "idle" | "sending" | "panicked"
    pubKind,        \* the channel a publisher's current call sends to
    pubMsg,         \* the message of a publisher's current call
    pubCalls,       \* publish calls begun by each publisher
    conPc,          \* consumer goroutine: "idle" | "waiting" | "returned"
    conKind,        \* the channel a consumer's current call receives from
    conRet,         \* the (message, ok) the consumer's last call returned
    conCalls,       \* consume calls begun by each consumer
    cancelled,      \* cancelled[c]: the consumer's context is Done
    sent,           \* history: sent[k] = messages whose send completed, in order
    received,       \* history: received[c] = <<k, msg>> returned with ok = true
    busKind,        \* scenario input: the channel the publishers and consumers use
    pubBudget,      \* scenario input: publish calls each publisher makes at most
    conBudget,      \* scenario input: consume calls each consumer makes at most
    \* ---- pkg/telegram: TelegramChannel
    streamStates,   \* sync.Map: chat id -> *StreamState (NoState: no entry)
    aggLog,         \* history: the events applied to each chat's current entry
    finalOf,        \* history: what the last finish/error of each chat computed
    aggScenario,    \* scenario input: which events are fed to handleStreamEvent directly
    aggBudget,      \* scenario input: the number of events fed at most
    aggFed,         \* number of events fed directly so far
    handled,        \* history: the events handleStreamEvent was called with, per chat
    allowList,      \* BaseChannel.allowList (from the configuration)
    senders,        \* history: the sender ids HandleMessage was called with, in order
    chanCtx,        \* the ctx given to Start: "live" | "draining" (Done, the consumer
                    \*   is past the test at the top of its loop) | "done"
    \* ---- pkg/agent: one Session per chat
    sessPc,         \* "off" | "idle" | "loop" | "send" | "stream" | "tools" | "exec"
                    \*   | "finish" | "done"
    sessChannel,    \* the Channel of the inbound message the Session processes
    sessBus,        \* Session.bus is set (WithMessageBus)
    sessErr,        \* the error processLoop returned ("" is nil)
    ctxDone,        \* the context of the ProcessMessage call is Done
    iteration,      \* processLoop: iteration
    assistantMsg,   \* processLoop: assistantMsg (of the current iteration)
    toolCalls,      \* processLoop: toolCalls (of the current iteration)
    finishReason,   \* processLoop: finishReason (of the current iteration)
    toolIdx,        \* executeToolCalls: index of the tool call being run
    messages,       \* Session.messages
    script,         \* scenario input: how the provider of the Session answers
    evLeft,         \* scenario input: events the provider still emits at most
    published,      \* history: the stream events each Session published, in order
    sessOf,         \* scenario input: the Session each call of ProcessMessage is made on
    prompt,         \* scenario input: Session.systemPrompt of each Session (<<>> is "")
    runsLeft,       \* scenario input: the calls of ProcessMessage still to be made
    returned,       \* history: the error each finished call of ProcessMessage returned
    authors,        \* history: for each message of a Session's history, the call that appended it
    \* ---- pkg/tool: SpawnTool.Execute and the units it launches
    spawnPc,        \* "off" | "idle" | "launch" | "wait" | "returned"
    spawnTasks,     \* scenario input: a.Tasks, the decoded arguments
    unitRounds,     \* scenario input: tool rounds the provider of each unit asks for at most
    unitScript,     \* scenario input: the provider of each unit: "any" | "tools"
    launchIdx,      \* the index of the for loop over a.Tasks
    wg,             \* the counter of the sync.WaitGroup
    units,          \* the goroutine of each task and the locals of its RunSync call
    results,        \* results []SubagentResult (written: the slot was assigned)
    subCtxDone,     \* subCtx is cancelled
    spawnRet,       \* the tool.Result Execute returned
    \* ---- pkg/tool: the MessageTool of a tool registry and the calls made on it
    currentChannel, \* MessageTool.currentChannel
    currentChatID,  \* MessageTool.currentChatID
    msgCall,        \* each caller's position in Manager.ExecuteWithContext, and its locals
    msgLeft         \* scenario input: the calls of the message tool each caller still makes

busVars == <<inbound, outbound, stream, closed, closePc, closeCalls, closePanic,
             pubPc, pubKind, pubMsg, pubCalls,
             conPc, conKind, conRet, conCalls, cancelled, sent, received,
             busKind, pubBudget, conBudget>>

aggVars == <<streamStates, aggLog, finalOf, aggScenario, aggBudget, aggFed, handled,
             allowList, senders, chanCtx>>

sessVars == <<sessPc, sessChannel, sessBus, sessErr, ctxDone, iteration, assistantMsg, toolCalls,
              finishReason, toolIdx, messages, script, evLeft, published,
              sessOf, prompt, runsLeft, returned, authors>>

msgVars == <<currentChannel, currentChatID, msgCall, msgLeft>>

spawnVars == <<spawnPc, spawnTasks, unitRounds, unitScript, launchIdx, wg, units, results,
               subCtxDone, spawnRet, msgVars>>

vars == <<busVars, aggVars, sessVars, spawnVars>>

----------------------------------------------------------------------------
(* Generic helpers *)

Min(a, b) == IF a <= b THEN a ELSE b

Range(s) == {s[i] : i \in 1..Len(s)}

IsPrefix(s, t) == Len(s) <= Len(t) /\ SubSeq(t, 1, Len(s)) = s

----------------------------------------------------------------------------
(* pkg/bus *)

\* make(chan ..., 100): the buffer size of each of the three channels
ChanCap == 100

Kinds == {"inbound", "outbound", "stream"}

Publishers == {"p1", "p2"}
Consumers == {"c1", "c2"}

\* Bounds of the bus scenarios
MaxPublish == 2
MaxConsume == 2
MaxClose == 2
MaxBurst == 102
MaxBurstConsume == 2
MaxPublishFair == 1
MaxConsumeFair == 1

\* The zero value of a message type (InboundMessage{}, OutboundMessage{},
\* StreamMessage{}): empty content, zero timestamp.
ZeroMessage == [Content |-> <<>>, Timestamp |-> 0]

Chan(k) == CASE k = "inbound" -> inbound
             [] k = "outbound" -> outbound
             [] k = "stream" -> stream

\* The three channels after channel k's buffer became q
SetChan(k, q) ==
    /\ inbound' = IF k = "inbound" THEN q ELSE inbound
    /\ outbound' = IF k = "outbound" THEN q ELSE outbound
    /\ stream' = IF k = "stream" THEN q ELSE stream

\* PublishStream stamps a message that carries no timestamp; the other two
\* publish operations send the message as it is.
Stamp(k, msg) ==
    IF k = "stream" /\ msg.Timestamp = 0 THEN [msg EXCEPT !.Timestamp = 1] ELSE msg

\* A send ch <- msg on an open channel proceeds when the buffer has room
SendReady_Drop(k) == TRUE
SendReady(k) == Len(Chan(k)) < ChanCap

\* The buffer after a send
Enqueue_Front(q, msg) == <<msg>> \o q
Enqueue(q, msg) == Append(q, msg)

\* The buffer after a receive
Dequeue_Peek(q) == q
Dequeue(q) == Tail(q)

\* A publisher goroutine enters PublishInbound / PublishOutbound /
\* PublishStream with a fresh message.
PublishCall(p, k) ==
    /\ UNCHANGED <<busKind, pubBudget, conBudget, aggVars, sessVars, spawnVars>>
    /\ pubPc[p] = "idle"
    /\ pubCalls[p] < pubBudget[p]
    /\ pubCalls' = [pubCalls EXCEPT ![p] = @ + 1]
    /\ pubKind' = [pubKind EXCEPT ![p] = k]
    /\ pubMsg' = [pubMsg EXCEPT ![p] =
                    Stamp(k, [Content |-> <<p, pubCalls[p] + 1>>, Timestamp |-> 0])]
    /\ pubPc' = [pubPc EXCEPT ![p] = "sending"]
    /\ UNCHANGED <<inbound, outbound, stream, closed, closePc, closeCalls, closePanic,
                   conPc, conKind, conRet, conCalls, cancelled, sent, received>>

\* mb.<k> <- msg completes: the message is appended to the buffer.
PublishSend(p) ==
    /\ UNCHANGED <<busKind, pubBudget, conBudget, aggVars, sessVars, spawnVars>>
    /\ pubPc[p] = "sending"
    /\ ~closed[pubKind[p]]
    /\ SendReady(pubKind[p])
    /\ SetChan(pubKind[p], Enqueue(Chan(pubKind[p]), pubMsg[p]))
    /\ sent' = [sent EXCEPT ![pubKind[p]] = Append(@, pubMsg[p])]
    /\ pubPc' = [pubPc EXCEPT ![p] = "idle"]
    /\ UNCHANGED <<closed, closePc, closeCalls, closePanic, pubKind, pubMsg, pubCalls,
                   conPc, conKind, conRet, conCalls, cancelled, received>>

\* A send on a closed channel panics, also when the sender was blocked.
PublishPanic(p) ==
    /\ UNCHANGED <<busKind, pubBudget, conBudget, aggVars, sessVars, spawnVars>>
    /\ pubPc[p] = "sending"
    /\ closed[pubKind[p]]
    /\ pubPc' = [pubPc EXCEPT ![p] = "panicked"]
    /\ UNCHANGED <<inbound, outbound, stream, closed, closePc, closeCalls, closePanic,
                   pubKind, pubMsg, pubCalls,
                   conPc, conKind, conRet, conCalls, cancelled, sent, received>>

\* A consumer goroutine enters ConsumeInbound / SubscribeOutbound /
\* SubscribeStream and reaches the select.
ConsumeCall(c, k) ==
    /\ UNCHANGED <<busKind, pubBudget, conBudget, aggVars, sessVars, spawnVars>>
    /\ conPc[c] \in {"idle", "returned"}
    /\ conCalls[c] < conBudget[c]
    /\ conCalls' = [conCalls EXCEPT ![c] = @ + 1]
    /\ conKind' = [conKind EXCEPT ![c] = k]
    /\ conPc' = [conPc EXCEPT ![c] = "waiting"]
    /\ UNCHANGED <<inbound, outbound, stream, closed, closePc, closeCalls, closePanic,
                   pubPc, pubKind, pubMsg, pubCalls, conRet, cancelled, sent, received>>

\* case msg := <-mb.<k>: return msg, true  (a buffered message)
ConsumeMsg(c) ==
    /\ UNCHANGED <<busKind, pubBudget, conBudget, aggVars, sessVars, spawnVars>>
    /\ conPc[c] = "waiting"
    /\ Len(Chan(conKind[c])) > 0
    /\ conRet' = [conRet EXCEPT ![c] = [msg |-> Head(Chan(conKind[c])), ok |-> TRUE]]
    /\ received' = [received EXCEPT ![c] = Append(@, <<conKind[c], Head(Chan(conKind[c]))>>)]
    /\ SetChan(conKind[c], Dequeue(Chan(conKind[c])))
    /\ conPc' = [conPc EXCEPT ![c] = "returned"]
    /\ UNCHANGED <<closed, closePc, closeCalls, closePanic, pubPc, pubKind, pubMsg,
                   pubCalls, conKind, conCalls, cancelled, sent>>

\* case msg := <-mb.<k>: return msg, true  (the channel is closed and drained:
\* the receive yields the zero value at once, and the code returns it with true)
ConsumeClosed(c) ==
    /\ UNCHANGED <<busKind, pubBudget, conBudget, aggVars, sessVars, spawnVars>>
    /\ conPc[c] = "waiting"
    /\ Len(Chan(conKind[c])) = 0
    /\ closed[conKind[c]]
    /\ conRet' = [conRet EXCEPT ![c] = [msg |-> ZeroMessage, ok |-> TRUE]]
    /\ received' = [received EXCEPT ![c] = Append(@, <<conKind[c], ZeroMessage>>)]
    /\ conPc' = [conPc EXCEPT ![c] = "returned"]
    /\ UNCHANGED <<inbound, outbound, stream, closed, closePc, closeCalls, closePanic,
                   pubPc, pubKind, pubMsg, pubCalls, conKind, conCalls, cancelled, sent>>

\* The select's second case is ready once the context is Done
DoneReady_Never(c) == FALSE
DoneReady(c) == cancelled[c]

\* case <-ctx.Done(): return zero, false
ConsumeCancelled(c) ==
    /\ UNCHANGED <<busKind, pubBudget, conBudget, aggVars, sessVars, spawnVars>>
    /\ conPc[c] = "waiting"
    /\ DoneReady(c)
    /\ conRet' = [conRet EXCEPT ![c] = [msg |-> ZeroMessage, ok |-> FALSE]]
    /\ conPc' = [conPc EXCEPT ![c] = "returned"]
    /\ UNCHANGED <<inbound, outbound, stream, closed, closePc, closeCalls, closePanic,
                   pubPc, pubKind, pubMsg, pubCalls, conKind, conCalls, cancelled,
                   sent, received>>

\* The owner of a consumer's context cancels it.
Cancel(c) ==
    /\ UNCHANGED <<busKind, pubBudget, conBudget, aggVars, sessVars, spawnVars>>
    /\ ~cancelled[c]
    /\ cancelled' = [cancelled EXCEPT ![c] = TRUE]
    /\ UNCHANGED <<inbound, outbound, stream, closed, closePc, closeCalls, closePanic,
                   pubPc, pubKind, pubMsg, pubCalls, conPc, conKind, conRet, conCalls,
                   sent, received>>

\* The order in which Close closes the channels
CloseOrder == <<"inbound", "outbound", "stream">>

\* close(ch) on a channel that is already closed panics
ClosePanics_Never(k) == FALSE
ClosePanics(k) == closed[k]

\* Close: close(mb.inbound); close(mb.outbound); close(mb.stream), one
\* statement per step.  Closing a closed channel panics.
CloseCall ==
    /\ UNCHANGED <<busKind, pubBudget, conBudget, aggVars, sessVars, spawnVars>>
    /\ closePc = 0
    /\ ~closePanic
    /\ closeCalls < MaxClose
    /\ closeCalls' = closeCalls + 1
    /\ IF ClosePanics(CloseOrder[1])
       THEN closePanic' = TRUE /\ UNCHANGED <<closed, closePc>>
       ELSE /\ closed' = [closed EXCEPT ![CloseOrder[1]] = TRUE]
            /\ closePc' = 1
            /\ UNCHANGED closePanic
    /\ UNCHANGED <<inbound, outbound, stream, pubPc, pubKind, pubMsg, pubCalls,
                   conPc, conKind, conRet, conCalls, cancelled, sent, received>>

CloseStep ==
    /\ UNCHANGED <<busKind, pubBudget, conBudget, aggVars, sessVars, spawnVars>>
    /\ closePc \in 1..2
    /\ closed' = [closed EXCEPT ![CloseOrder[closePc + 1]] = TRUE]
    /\ closePc' = IF closePc = 2 THEN 0 ELSE closePc + 1
    /\ UNCHANGED <<inbound, outbound, stream, closeCalls, closePanic,
                   pubPc, pubKind, pubMsg, pubCalls,
                   conPc, conKind, conRet, conCalls, cancelled, sent, received>>

\* NewMessageBus: three empty open channels; no goroutine has called yet.
BusHolding(queued) ==
    /\ inbound = <<>>
    /\ outbound = <<>>
    /\ stream = queued
    /\ closed = [k \in Kinds |-> FALSE]
    /\ closePc = 0
    /\ closeCalls = 0
    /\ closePanic = FALSE
    /\ pubPc = [p \in Publishers |-> "idle"]
    /\ pubKind = [p \in Publishers |-> "inbound"]
    /\ pubMsg = [p \in Publishers |-> ZeroMessage]
    /\ pubCalls = [p \in Publishers |-> 0]
    /\ conPc = [c \in Consumers |-> "idle"]
    /\ conKind = [c \in Consumers |-> "inbound"]
    /\ conRet = [c \in Consumers |-> [msg |-> ZeroMessage, ok |-> FALSE]]
    /\ conCalls = [c \in Consumers |-> 0]
    /\ cancelled = [c \in Consumers |-> FALSE]
    /\ sent = [k \in Kinds |-> <<>>]
    /\ received = [c \in Consumers |-> <<>>]
    /\ busKind \in Kinds

\* NewMessageBus: three empty channels
NewMessageBus == BusHolding(<<>>)

----------------------------------------------------------------------------
(* pkg/telegram: StreamState, the per-chat aggregator *)

Chats == {"1", "2"}

\* Part ids and tool-call ids that events carry; "" is the empty Go string
PartIDs == {"main", "alt", "t1", "t2", ""}

\* The zero value of bus.StreamMessage
ZeroStreamMessage ==
    [Channel |-> "", ChatID |-> "", SessionKey |-> "", Type |-> "",
     Content |-> <<>>, Delta |-> "", ToolName |-> "", ToolArgs |-> <<>>,
     ToolResult |-> <<>>, ToolCallID |-> "", Error |-> <<>>, Iteration |-> 0,
     Timestamp |-> 0]

\* No entry in the streamStates map
NoState == [none |-> TRUE]

\* NewStreamState: empty maps, lastUpdate = time.Now().  heap holds the Part
\* objects this state has allocated; parts, toolCalls and currentText point
\* into it (0 is nil / no entry).  lastUpdateOld says whether more than the
\* throttle interval has passed since lastUpdate.  Three fields record what
\* happened to the state: sinceRender is "none" before its first live
\* render, "short" while less than the throttle interval has passed since
\* the last one and "long" afterwards; burst says that two live renders were
\* closer than the interval; unlocked holds the fields that were read or
\* written while s.mu was not held.
NewStreamState ==
    [heap |-> <<>>,
     parts |-> [id \in PartIDs |-> 0],
     toolCalls |-> [id \in PartIDs |-> 0],
     toolCallList |-> <<>>,
     currentText |-> 0,
     iteration |-> 0,
     messageID |-> 0,
     chatID |-> "",
     lastUpdateOld |-> FALSE,
     sinceRender |-> "none",
     burst |-> FALSE,
     unlocked |-> {}]

\* &Part{ID: id, Type: "text", Text: ""}
TextPart(id) ==
    [ID |-> id, Type |-> "text", Text |-> <<>>, ToolName |-> "", ToolCallID |-> "",
     State |-> [status |-> "", input |-> <<>>, output |-> <<>>, error |-> <<>>]]

\* &Part{ID: id, Type: "tool", ToolName: .., ToolCallID: id,
\*       State: {"status": "running", "input": args}}
ToolPart(id, name, args) ==
    [ID |-> id, Type |-> "tool", Text |-> <<>>, ToolName |-> name, ToolCallID |-> id,
     State |-> [status |-> "running", input |-> args, output |-> <<>>, error |-> <<>>]]

\* Allocation of a Part object; its address is Len(heap) afterwards
NewPart(s, part) == [s EXCEPT !.heap = Append(@, part)]

AddPart(s, idx) == [s EXCEPT !.parts[s.heap[idx].ID] = idx]

GetPart(s, id) == s.parts[id]

SetCurrentText_Keep(s, idx) == IF s.currentText = 0 THEN [s EXCEPT !.currentText = idx] ELSE s
SetCurrentText(s, idx) == [s EXCEPT !.currentText = idx]

UpdatePartDelta(s, partID, delta) ==
    IF s.parts[partID] # 0
    THEN [s EXCEPT !.heap[s.parts[partID]].Text = @ \o delta, !.lastUpdateOld = FALSE]
    ELSE s

AddToolCall_Front(s, id, idx) ==
    [s EXCEPT !.toolCalls[id] = idx, !.toolCallList = <<id>> \o @]
AddToolCall(s, id, idx) ==
    [s EXCEPT !.toolCalls[id] = idx, !.toolCallList = Append(@, id)]

GetToolCall(s, id) == s.toolCalls[id]

\* The Part objects the parts map holds (its values)
PartValues(s) == {s.heap[s.parts[id]] : id \in {i \in PartIDs : s.parts[i] # 0}}

\* for _, part := range s.parts { if part.Type == "text" && len(part.Text) >
\* len(finalText) { finalText = part.Text } }: Go ranges over a map in an
\* unspecified order, so the loop yields any longest text part's text (the
\* first one of that length it meets), or "" when no text part is non-empty.
LongestText(s) ==
    LET texts == {part.Text : part \in {q \in PartValues(s) : q.Type = "text"}}
        longest == {t \in texts : Len(t) > 0 /\ \A u \in texts : Len(u) <= Len(t)}
    IN  IF longest = {} THEN {<<>>} ELSE longest

\* GetFinalText: the set of texts the call can return
GetFinalText(s) ==
    IF s.currentText # 0 /\ s.heap[s.currentText].Text # <<>>
    THEN {s.heap[s.currentText].Text}
    ELSE LongestText(s)

\* Caps of the previews in GetDisplayContent
maxInputLen == 200
maxOutputLen == 150

\* Number of tool calls GetDisplayContent shows
MaxShown == 3

\* s[:n] + "..." when len(s) > n
Preview(str, n) == IF Len(str) > n THEN SubSeq(str, 1, n) \o <<".", ".", ".">> ELSE str

\* json.MarshalIndent of the arguments map
MarshalIndent(input) == <<"{">> \o input \o <<"}">>

\* The ids GetDisplayContent walks: the whole list, or its last MaxShown ids
ToolIDsToShow(s) ==
    IF Len(s.toolCallList) <= MaxShown
    THEN s.toolCallList
    ELSE SubSeq(s.toolCallList, Len(s.toolCallList) - MaxShown + 1, Len(s.toolCallList))

\* One tool block: the header with the status glyph, the input preview when
\* the input map is non-empty, the output preview when an output is set
ToolBlock(tool) ==
    [kind |-> "tool",
     name |-> tool.ToolName,
     glyph |-> IF tool.State.status \in {"pending", "running", "completed", "error"}
               THEN tool.State.status ELSE "",
     input |-> IF Len(tool.State.input) > 0
               THEN Preview(MarshalIndent(tool.State.input), maxInputLen) ELSE <<>>,
     output |-> IF tool.State.output # <<>>
                THEN Preview(tool.State.output, maxOutputLen) ELSE <<>>]

RECURSIVE ToolBlocksOf(_, _)
ToolBlocksOf(s, ids) ==
    IF ids = <<>> THEN <<>>
    ELSE LET idx == s.toolCalls[Head(ids)]
         IN  (IF idx = 0 \/ s.heap[idx].ToolName = ""
              THEN <<>>
              ELSE <<ToolBlock(s.heap[idx])>>) \o ToolBlocksOf(s, Tail(ids))

\* The part of the snapshot before the text: the step marker, the tool blocks
\* and the "... and N more" line
DisplayHead(s) ==
    (IF s.iteration > 0 THEN <<[kind |-> "step", n |-> s.iteration]>> ELSE <<>>)
    \o (IF \E id \in PartIDs : s.toolCalls[id] # 0
        THEN ToolBlocksOf(s, ToolIDsToShow(s))
             \o (IF Len(s.toolCallList) > MaxShown
                 THEN <<[kind |-> "more", n |-> Len(s.toolCallList) - MaxShown]>>
                 ELSE <<>>)
        ELSE <<>>)

\* GetDisplayContent: the snapshots the call can return, each the sequence of
\* the pieces it joins with newlines
GetDisplayContent(s) ==
    {DisplayHead(s) \o
        (IF text = <<>> THEN <<>>
         ELSE (IF DisplayHead(s) # <<>> THEN <<[kind |-> "blank"]>> ELSE <<>>)
              \o <<[kind |-> "text", text |-> text]>>)
     : text \in GetFinalText(s)}

\* The snapshot reached the chat by an edit or a new message: a live render
Rendered(s) ==
    [s EXCEPT !.burst = @ \/ s.sinceRender = "short", !.sinceRender = "short"]

\* A field of the state is read or written directly, without s.mu
Unlocked(s, field) == [s EXCEPT !.unlocked = @ \cup {field}]

\* sendNewStreamMessage: SendMessage (retried without parse mode); on success
\* SetMessageID(sentMsg.MessageID) and SetChatID(chatID).  1 stands for the
\* id of a sent message.
sendNewStreamMessage(s, chat, sendOk) ==
    IF sendOk THEN Rendered([s EXCEPT !.messageID = 1, !.chatID = chat]) ELSE s

\* updateStreamMessage: nothing for an empty snapshot; else edit the live
\* message, or send a new one when there is none or the edit failed
updateStreamMessage(s, chat, editOk, sendOk) ==
    IF GetDisplayContent(s) = {<<>>} THEN s
    ELSE IF s.messageID # 0
         THEN (IF editOk THEN Rendered(s) ELSE sendNewStreamMessage(s, chat, sendOk))
         ELSE sendNewStreamMessage(s, chat, sendOk)

\* finalizeStreamMessage: with a live message, an edit to the final text
\* ("Completed" for an empty one), whose error is ignored; without one,
\* nothing.  The value tells whether something reached the chat, and what.
\* (The texts of the model hold no markup and stay below 4000 characters.)
finalizeStreamMessage(s, text, editOk) ==
    IF s.messageID # 0
    THEN [rendered |-> editOk,
          shown |-> IF ~editOk THEN <<>> ELSE IF text = <<>> THEN <<"Completed">> ELSE text,
          unlocked |-> s.unlocked \cup {"toolCalls"}]
    ELSE [rendered |-> FALSE, shown |-> <<>>, unlocked |-> s.unlocked]

\* streamStates.Delete(chat)
Delete_Keep(states, chat) == states
Delete(states, chat) == [states EXCEPT ![chat] = NoState]

\* The state handleStreamEvent works on: streamStates.LoadOrStore(chat, NewStreamState())
LoadOrStore(cur) == IF cur = NoState THEN NewStreamState ELSE cur

\* case bus.StreamEventTextStart
OnTextStart(s, msg) ==
    LET s1 == NewPart(s, TextPart(msg.Delta))
    IN  SetCurrentText(AddPart(s1, Len(s1.heap)), Len(s1.heap))

\* case bus.StreamEventTextDelta
OnTextDelta(s, msg, editOk, sendOk) ==
    LET s1 == IF GetPart(s, msg.Delta) # 0
              THEN UpdatePartDelta(s, msg.Delta, msg.Content)
              ELSE UpdatePartDelta(s, "main", msg.Content)
        s2 == Unlocked(s1, "lastUpdate")
    IN  IF s2.lastUpdateOld THEN updateStreamMessage(s2, msg.ChatID, editOk, sendOk) ELSE s2

\* case bus.StreamEventToolCall
OnToolCall(s, msg, editOk, sendOk) ==
    LET s1 == NewPart(s, ToolPart(msg.ToolCallID, msg.ToolName, msg.ToolArgs))
    IN  updateStreamMessage(
            AddToolCall(AddPart(s1, Len(s1.heap)), msg.ToolCallID, Len(s1.heap)),
            msg.ChatID, editOk, sendOk)

\* case bus.StreamEventToolResult
OnToolResult_Upsert(s, msg, editOk, sendOk) ==
    updateStreamMessage(
        IF GetToolCall(s, msg.ToolCallID) # 0
        THEN Unlocked(
               [s EXCEPT !.heap[GetToolCall(s, msg.ToolCallID)].State.status = "completed",
                         !.heap[GetToolCall(s, msg.ToolCallID)].State.output = msg.ToolResult],
               "State")
        ELSE LET s1 == NewPart(s, [ToolPart(msg.ToolCallID, "", <<>>) EXCEPT
                                      !.State.status = "completed",
                                      !.State.output = msg.ToolResult])
             IN  AddToolCall(AddPart(s1, Len(s1.heap)), msg.ToolCallID, Len(s1.heap)),
        msg.ChatID, editOk, sendOk)
OnToolResult(s, msg, editOk, sendOk) ==
    updateStreamMessage(
        IF GetToolCall(s, msg.ToolCallID) # 0
        THEN Unlocked(
               [s EXCEPT !.heap[GetToolCall(s, msg.ToolCallID)].State.status = "completed",
                         !.heap[GetToolCall(s, msg.ToolCallID)].State.output = msg.ToolResult],
               "State")
        ELSE s,
        msg.ChatID, editOk, sendOk)

\* case bus.StreamEventToolError
OnToolError(s, msg, editOk, sendOk) ==
    updateStreamMessage(
        IF GetToolCall(s, msg.ToolCallID) # 0
        THEN Unlocked(
               [s EXCEPT !.heap[GetToolCall(s, msg.ToolCallID)].State.status = "error",
                         !.heap[GetToolCall(s, msg.ToolCallID)].State.error = msg.Error],
               "State")
        ELSE s,
        msg.ChatID, editOk, sendOk)

\* handleStreamEvent for the events that keep the chat's entry: the switch on
\* msg.Type (a start event matches no case)
ApplyEvent(s, msg, editOk, sendOk) ==
    CASE msg.Type = "text-start" -> OnTextStart(s, msg)
      [] msg.Type = "text-delta" -> OnTextDelta(s, msg, editOk, sendOk)
      [] msg.Type = "text-end" -> updateStreamMessage(s, msg.ChatID, editOk, sendOk)
      [] msg.Type = "tool-call" -> OnToolCall(s, msg, editOk, sendOk)
      [] msg.Type = "tool-result" -> OnToolResult(s, msg, editOk, sendOk)
      [] msg.Type = "tool-error" -> OnToolError(s, msg, editOk, sendOk)
      [] OTHER -> s

\* finish and error end with streamStates.Delete(msg.ChatID)
Terminal_ErrorOnly(msg) == msg.Type = "error"
Terminal(msg) == msg.Type \in {"finish", "error"}

\* The event types whose handler renders the snapshot (updateStreamMessage)
Rendering(msg) ==
    msg.Type \in {"text-delta", "text-end", "tool-call", "tool-result", "tool-error"}

\* The results <<editOk, sendOk>> the Telegram calls of one handler run can
\* have: an edit is tried only when a live message exists, a send only when
\* there is none or the edit failed; finish tries an edit only
ApiResults(state, msg) ==
    IF msg.Type = "finish"
    THEN (IF state.messageID # 0 THEN {<<TRUE, TRUE>>, <<FALSE, TRUE>>} ELSE {<<TRUE, TRUE>>})
    ELSE IF ~Rendering(msg) THEN {<<TRUE, TRUE>>}
    ELSE IF state.messageID # 0
         THEN {<<TRUE, TRUE>>, <<FALSE, TRUE>>, <<FALSE, FALSE>>}
         ELSE {<<TRUE, TRUE>>, <<TRUE, FALSE>>}

\* old: a pause longer than the throttle interval (500 ms) precedes the
\* handling of the event, so that more than the interval has passed since
\* lastUpdate and since the last live render.  time.Since(state.lastUpdate)
\* is read by the text-delta case only; the scenario "throttle" lets time
\* pass before every event that renders.
Pauses(msg) ==
    IF msg.Type = "text-delta" \/ (aggScenario = "throttle" /\ Rendering(msg))
    THEN BOOLEAN ELSE {FALSE}

Elapse(state, msg, old) ==
    IF old
    THEN [state EXCEPT !.lastUpdateOld = TRUE,
                       !.sinceRender = IF @ = "short" THEN "long" ELSE @]
    ELSE state

\* handleStreamEvent(ctx, msg).  (Every chat id of the model is numeric, so
\* parseChatID succeeds.)
handleStreamEvent(msg) ==
    \E old \in Pauses(msg) :
        LET state == Elapse(LoadOrStore(streamStates[msg.ChatID]), msg, old)
        IN  IF Terminal(msg)
            THEN \E text \in (IF msg.Type = "finish" THEN GetFinalText(state) ELSE {<<>>}) :
                 \E api \in ApiResults(state, msg) :
                    /\ streamStates' = Delete(streamStates, msg.ChatID)
                    /\ finalOf' = [finalOf EXCEPT ![msg.ChatID] =
                                     [done |-> TRUE, type |-> msg.Type, text |-> text,
                                      log |-> aggLog[msg.ChatID],
                                      head |-> DisplayHead(state),
                                      messageID |-> state.messageID,
                                      api |-> api,
                                      final |-> IF msg.Type = "finish"
                                                THEN finalizeStreamMessage(state, text, api[1])
                                                ELSE [rendered |-> FALSE, shown |-> <<>>,
                                                      unlocked |-> state.unlocked]]]
                    /\ aggLog' = [aggLog EXCEPT ![msg.ChatID] = <<>>]
            ELSE \E api \in ApiResults(state, msg) :
                    /\ streamStates' = [streamStates EXCEPT ![msg.ChatID] =
                                            ApplyEvent(state, msg, api[1], api[2])]
                    /\ aggLog' = [aggLog EXCEPT ![msg.ChatID] = Append(@, msg)]
                    /\ UNCHANGED finalOf

\* An event of the given type for a chat of the telegram channel
Event(type, chat) ==
    [ZeroStreamMessage EXCEPT !.Channel = "telegram", !.ChatID = chat, !.Type = type]

TextEvents(chat) ==
    {[Event("text-start", chat) EXCEPT !.Delta = id] : id \in {"main", "alt"}}
    \cup {[Event("text-delta", chat) EXCEPT !.Delta = id, !.Content = d] :
            id \in {"main", "alt"}, d \in {<<"a">>, <<"b">>}}
    \cup {Event("text-end", chat)}

ToolCallEvents(chat, ids, names) ==
    {[Event("tool-call", chat) EXCEPT !.ToolCallID = id, !.ToolName = n, !.ToolArgs = <<"x">>] :
        id \in ids, n \in names}

ToolResultEvents(chat, ids) ==
    {[Event("tool-result", chat) EXCEPT !.ToolCallID = id, !.ToolResult = <<"r">>] : id \in ids}

ToolErrorEvents(chat, ids) ==
    {[Event("tool-error", chat) EXCEPT !.ToolCallID = id, !.Error = <<"e">>] : id \in ids}

ControlEvents(chat) ==
    {[Event("start", chat) EXCEPT !.Iteration = 1], Event("finish", chat), Event("error", chat)}

\* Bounds of the aggregator scenarios: the number of events fed
MaxAggEvents == 4
MaxToolEvents == 5

\* The stream consumer is handed an event
HandleStreamEvent(msg) ==
    /\ aggFed < aggBudget
    /\ aggFed' = aggFed + 1
    /\ handleStreamEvent(msg)
    /\ handled' = [handled EXCEPT ![msg.ChatID] = Append(@, msg)]
    /\ UNCHANGED <<busVars, sessVars, spawnVars, aggScenario, aggBudget, allowList, senders,
                   chanCtx>>

NoFinal == [done |-> FALSE, type |-> "", text |-> <<>>, log |-> <<>>, head |-> <<>>,
            messageID |-> 0, api |-> <<TRUE, TRUE>>,
            final |-> [rendered |-> FALSE, shown |-> <<>>, unlocked |-> {}]]

\* handleMessage: a message of the user arrives for a chat:
\* streamStates.LoadOrStore(chat, NewStreamState()) and state.SetChatID
HandleInbound(chat) ==
    /\ aggFed < aggBudget
    /\ aggFed' = aggFed + 1
    /\ streamStates' = [streamStates EXCEPT ![chat] = [LoadOrStore(@) EXCEPT !.chatID = chat]]
    /\ UNCHANGED <<busVars, sessVars, spawnVars, aggScenario, aggBudget, aggLog, finalOf,
                   handled, allowList, senders, chanCtx>>

\* NewTelegramChannel: an empty streamStates map
NewTelegramChannel ==
    /\ streamStates = [c \in Chats |-> NoState]
    /\ aggLog = [c \in Chats |-> <<>>]
    /\ finalOf = [c \in Chats |-> NoFinal]
    /\ handled = [c \in Chats |-> <<>>]
    /\ aggFed = 0
    /\ chanCtx = "live"

----------------------------------------------------------------------------
(* pkg/telegram: BaseChannel, the allow-list *)

\* strings.Index(s, ch) for a one-character ch: the 0-based position of the
\* first ch of s, -1 when s holds none
Index(s, ch) ==
    IF \E i \in 1..Len(s) : s[i] = ch
    THEN (CHOOSE i \in 1..Len(s) : s[i] = ch /\ \A j \in 1..(i - 1) : s[j] # ch) - 1
    ELSE 0 - 1

\* strings.TrimPrefix(s, ch) for a one-character ch
TrimPrefix(s, ch) == IF s # <<>> /\ s[1] = ch THEN Tail(s) ELSE s

\* The split of IsAllowed at the first "|", made only when idx > 0
BeforeBar(s) == IF Index(s, "|") > 0 THEN SubSeq(s, 1, Index(s, "|")) ELSE s
AfterBar(s) == IF Index(s, "|") > 0 THEN SubSeq(s, Index(s, "|") + 2, Len(s)) ELSE <<>>

\* The condition of the loop body of IsAllowed for one entry
EntryAllows(allowed, senderID) ==
    LET idPart == BeforeBar(senderID)
        userPart == AfterBar(senderID)
        trimmed == TrimPrefix(allowed, "@")
        allowedID == BeforeBar(trimmed)
        allowedUser == AfterBar(trimmed)
    IN  \/ senderID = allowed
        \/ idPart = allowed
        \/ senderID = trimmed
        \/ idPart = trimmed
        \/ idPart = allowedID
        \/ (allowedUser # <<>> /\ senderID = allowedUser)
        \/ (userPart # <<>> /\ (userPart = allowed \/ userPart = trimmed
                                \/ userPart = allowedUser))

\* BaseChannel.IsAllowed
IsAllowed_All(list, senderID) == TRUE
IsAllowed(list, senderID) ==
    \/ Len(list) = 0
    \/ \E i \in 1..Len(list) : EntryAllows(list[i], senderID)

\* fmt.Sprintf("%s:%s", c.name, chatID)
SessionKeyOf(name, chatID) == <<name, ":", chatID>>

\* The bus.InboundMessage HandleMessage builds
InboundMessage(senderID, chatID) ==
    [Channel |-> "telegram", SenderID |-> senderID, ChatID |-> chatID,
     Content |-> <<"hi">>, SessionKey |-> SessionKeyOf("telegram", chatID),
     StreamMode |-> TRUE]

\* BaseChannel.HandleMessage: return when the sender is not allowed, else
\* c.bus.PublishInbound(msg), a send on the inbound channel
HandleMessage(senderID, chatID) ==
    /\ aggFed < aggBudget
    /\ aggFed' = aggFed + 1
    /\ senders' = Append(senders, senderID)
    /\ IF IsAllowed(allowList, senderID)
       THEN /\ ~closed["inbound"]
            /\ SendReady("inbound")
            /\ SetChan("inbound", Enqueue(inbound, InboundMessage(senderID, chatID)))
            /\ sent' = [sent EXCEPT !["inbound"] =
                          Append(@, InboundMessage(senderID, chatID))]
       ELSE UNCHANGED <<inbound, outbound, stream, sent>>
    /\ UNCHANGED <<closed, closePc, closeCalls, closePanic, pubPc, pubKind, pubMsg,
                   pubCalls, conPc, conKind, conRet, conCalls, cancelled, received,
                   busKind, pubBudget, conBudget>>
    /\ UNCHANGED <<streamStates, aggLog, finalOf, aggScenario, aggBudget, handled,
                   allowList, chanCtx, sessVars, spawnVars>>

\* NewBaseChannel
NewBaseChannel(list) ==
    /\ allowList = list
    /\ senders = <<>>

----------------------------------------------------------------------------
(* pkg/agent: Session *)

\* The unbounded counter and history of the loop are kept up to these sizes:
\* MaxIteration stands for every larger iteration count, and of the history
\* the last MaxHistory messages are kept
MaxIteration == 3
MaxHistory == 6

\* Session.systemPrompt, set by WithSystemPrompt
systemPrompt == <<"s">>

\* model.Message
Message(role, content, calls, callID) ==
    [Role |-> role, Content |-> content, ToolCalls |-> calls, ToolCallID |-> callID]

\* s.messages = append(s.messages, m)
AppendMessage_Reset(msgs, m) == <<m>>
AppendMessage(msgs, m) ==
    LET all == Append(msgs, m)
    IN  IF Len(all) > MaxHistory THEN Tail(all) ELSE all

\* model.ResponseEvent; NoToolCall is the nil *ToolCall
NoToolCall == [ID |-> "", Name |-> "", Arguments |-> <<>>, nil |-> TRUE]

ToolCall(id, name, arguments) ==
    [ID |-> id, Name |-> name, Arguments |-> arguments, nil |-> FALSE]

ResponseEvent(delta, call, reason) ==
    [Delta |-> delta, ToolCall |-> call, FinishReason |-> reason]

\* The events a provider stream can carry
DeltaEvents == {ResponseEvent(d, NoToolCall, "") : d \in {<<"a">>, <<"b">>}}
ToolCallEvent == ResponseEvent(<<>>, ToolCall("t1", "ls", <<"{", "x", "}">>), "")
OtherToolCallEvent == ResponseEvent(<<>>, ToolCall("t2", "cat", <<"{", "y", "}">>), "")
ReasonEvents == {ResponseEvent(<<>>, NoToolCall, r) : r \in {"stop", "tool_calls"}}

\* json.Unmarshal([]byte(tc.Function.Arguments), &args): the members of the
\* JSON object, or a nil map when the text is empty or is not an object
Unmarshal(arguments) ==
    IF Len(arguments) >= 2 /\ Head(arguments) = "{" /\ arguments[Len(arguments)] = "}"
    THEN SubSeq(arguments, 2, Len(arguments) - 1)
    ELSE <<>>

\* A StreamMessage of the Session of a chat
SessionEvent(c, type) ==
    [ZeroStreamMessage EXCEPT !.Channel = sessChannel[c], !.ChatID = sessOf[c],
                              !.SessionKey = sessOf[c], !.Type = type]

\* s.bus.PublishStream(msg): stamps the message and sends it on the stream
\* channel; blocks while the buffer is full
PublishStream(msg) ==
    /\ SendReady("stream")
    /\ stream' = Enqueue(stream, Stamp("stream", msg))
    /\ UNCHANGED <<inbound, outbound, closed, closePc, closeCalls, closePanic,
                   pubPc, pubKind, pubMsg, pubCalls, conPc, conKind, conRet, conCalls,
                   cancelled, sent, received, busKind, pubBudget, conBudget>>

\* if s.bus != nil { s.bus.PublishStream(msg) }
Publish(c, msg) ==
    IF sessBus[c]
    THEN /\ PublishStream(msg)
         /\ published' = [published EXCEPT ![c] = Append(@, Stamp("stream", msg))]
    ELSE UNCHANGED <<busVars, published>>

\* The authors of a history after one more message, kept like the history
AppendAuthor(who, c) ==
    LET all == Append(who, c)
    IN  IF Len(all) > MaxHistory THEN Tail(all) ELSE all

\* if s.systemPrompt != "" && len(s.messages) == 0
NeedsPrompt_Always(p, msgs) == p # <<>>
NeedsPrompt(p, msgs) == p # <<>> /\ Len(msgs) = 0

\* ProcessMessage up to the call of processLoop: publishes a start event and
\* appends the system prompt (to an empty history) and the user message.
\* err and ctx are those of this call.
ProcessMessage(c) ==
    /\ sessPc[c] \in {"idle", "done"}
    /\ runsLeft[c] > 0
    /\ runsLeft' = [runsLeft EXCEPT ![c] = @ - 1]
    /\ Publish(c, SessionEvent(c, "start"))
    /\ messages' = [messages EXCEPT ![sessOf[c]] =
            AppendMessage(IF NeedsPrompt(prompt[sessOf[c]], @)
                          THEN <<Message("system", prompt[sessOf[c]], <<>>, "")>> ELSE @,
                          Message("user", <<"u">>, <<>>, ""))]
    /\ authors' = [authors EXCEPT ![sessOf[c]] =
            AppendAuthor(IF NeedsPrompt(prompt[sessOf[c]], messages[sessOf[c]])
                         THEN <<c>> ELSE @, c)]
    /\ iteration' = [iteration EXCEPT ![c] = 0]
    /\ sessErr' = [sessErr EXCEPT ![c] = ""]
    /\ ctxDone' = [ctxDone EXCEPT ![c] = FALSE]
    /\ sessPc' = [sessPc EXCEPT ![c] = "loop"]
    /\ UNCHANGED <<aggVars, spawnVars, sessChannel, sessBus, sessOf, prompt, returned,
                   assistantMsg, toolCalls, finishReason, toolIdx, script, evLeft>>

\* Session.Clear: s.messages = nil, under the lock
Clear(session) ==
    /\ messages[session] # <<>>
    /\ messages' = [messages EXCEPT ![session] = <<>>]
    /\ authors' = [authors EXCEPT ![session] = <<>>]
    /\ UNCHANGED <<busVars, aggVars, spawnVars, published, sessPc, sessChannel, sessBus,
                   sessErr, ctxDone, iteration, assistantMsg, toolCalls, finishReason,
                   toolIdx, script, evLeft, sessOf, prompt, runsLeft, returned>>

\* The context of the call is cancelled
CancelSession(c) ==
    /\ sessPc[c] \in {"loop", "send", "stream", "tools", "exec"}
    /\ ~ctxDone[c]
    /\ ctxDone' = [ctxDone EXCEPT ![c] = TRUE]
    /\ UNCHANGED <<busVars, aggVars, spawnVars, published, sessPc, sessChannel,
                   sessBus, sessErr, iteration, assistantMsg, toolCalls, finishReason,
                   toolIdx, messages, script, evLeft, sessOf, prompt, runsLeft, returned, authors>>

\* Top of the for loop when ctx is Done: return ctx.Err()
LoopCancelled(c) ==
    /\ sessPc[c] = "loop"
    /\ ctxDone[c]
    /\ sessErr' = [sessErr EXCEPT ![c] = "context canceled"]
    /\ sessPc' = [sessPc EXCEPT ![c] = "finish"]
    /\ UNCHANGED <<busVars, aggVars, spawnVars, published, sessChannel, sessBus,
                   ctxDone, iteration, assistantMsg, toolCalls, finishReason, toolIdx,
                   messages, script, evLeft, sessOf, prompt, runsLeft, returned, authors>>

\* Top of the for loop otherwise: iteration++ and the start event of the
\* iteration.  Nothing in the loop compares iteration with a maximum.
LoopTop(c) ==
    /\ sessPc[c] = "loop"
    /\ ~ctxDone[c]
    /\ iteration' = [iteration EXCEPT ![c] = Min(@ + 1, MaxIteration)]
    /\ Publish(c, [SessionEvent(c, "start") EXCEPT
                        !.Iteration = Min(iteration[c] + 1, MaxIteration)])
    /\ sessPc' = [sessPc EXCEPT ![c] = "send"]
    /\ UNCHANGED <<aggVars, spawnVars, sessChannel, sessBus, sessErr, ctxDone,
                   assistantMsg, toolCalls, finishReason, toolIdx, messages, script,
                   evLeft, sessOf, prompt, runsLeft, returned, authors>>

\* The error event of a failed SendStream: Content: err.Error()
ErrorEvent_NoText(c, err) == SessionEvent(c, "error")
ErrorEvent(c, err) == [SessionEvent(c, "error") EXCEPT !.Content = err]

\* s.provider.SendStream fails: the error event, return err
SendStreamFails(c) ==
    /\ sessPc[c] = "send"
    /\ script[c] = "any"
    /\ Publish(c, ErrorEvent(c, <<"p">>))
    /\ sessErr' = [sessErr EXCEPT ![c] = "provider"]
    /\ sessPc' = [sessPc EXCEPT ![c] = "finish"]
    /\ UNCHANGED <<aggVars, spawnVars, sessChannel, sessBus, ctxDone, iteration,
                   assistantMsg, toolCalls, finishReason, toolIdx, messages, script,
                   evLeft, sessOf, prompt, runsLeft, returned, authors>>

\* s.provider.SendStream succeeds: fresh assistantMsg, toolCalls and
\* finishReason, and the text-start event of part "main"
SendStream(c) ==
    /\ sessPc[c] = "send"
    /\ Publish(c, [SessionEvent(c, "text-start") EXCEPT !.Delta = "main"])
    /\ assistantMsg' = [assistantMsg EXCEPT ![c] = <<>>]
    /\ toolCalls' = [toolCalls EXCEPT ![c] = <<>>]
    /\ finishReason' = [finishReason EXCEPT ![c] = ""]
    /\ sessPc' = [sessPc EXCEPT ![c] = "stream"]
    /\ UNCHANGED <<aggVars, spawnVars, sessChannel, sessBus, sessErr, ctxDone,
                   iteration, toolIdx, messages, script, evLeft, sessOf, prompt, runsLeft, returned, authors>>

\* The events the provider's stream can deliver next.  A provider scripted
\* "tools" answers every request with one tool call and the finish reason
\* tool_calls; one scripted "once" does so for the first request and answers
\* the later ones with a text and the finish reason stop; any other provider
\* sends any events, one scripted "calls" with tool calls of two ids.
NextEvents(c) ==
    IF script[c] = "tools" \/ (script[c] = "once" /\ iteration[c] = 1)
    THEN (IF toolCalls[c] = <<>> THEN {ToolCallEvent}
          ELSE IF finishReason[c] = "" THEN {ResponseEvent(<<>>, NoToolCall, "tool_calls")}
          ELSE {})
    ELSE IF script[c] = "once"
    THEN (IF assistantMsg[c] = <<>> THEN {ResponseEvent(<<"a">>, NoToolCall, "")}
          ELSE IF finishReason[c] = "" THEN {ResponseEvent(<<>>, NoToolCall, "stop")}
          ELSE {})
    ELSE IF evLeft[c] > 0
    THEN DeltaEvents \cup {ToolCallEvent} \cup ReasonEvents
         \cup (IF script[c] = "calls" THEN {OtherToolCallEvent} ELSE {})
    ELSE {}

\* The stream may be closed by the provider now
MayClose(c) == script[c] \notin {"any", "calls"} => NextEvents(c) = {}

\* assistantMsg.WriteString(event.Delta)
WriteString_Front(builder, delta) == delta \o builder
WriteString(builder, delta) == builder \o delta

\* One pass of "for event := range stream"
StreamEvent(c, event) ==
    /\ sessPc[c] = "stream"
    /\ event \in NextEvents(c)
    /\ evLeft' = [evLeft EXCEPT ![c] = IF script[c] \in {"any", "calls"} THEN @ - 1 ELSE @]
    /\ IF event.Delta # <<>>
       THEN /\ assistantMsg' = [assistantMsg EXCEPT ![c] = WriteString(@, event.Delta)]
            /\ Publish(c, [SessionEvent(c, "text-delta") EXCEPT
                                !.Delta = "main", !.Content = event.Delta])
       ELSE UNCHANGED <<assistantMsg, busVars, published>>
    /\ toolCalls' = [toolCalls EXCEPT ![c] =
                        IF event.ToolCall.nil THEN @ ELSE Append(@, event.ToolCall)]
    /\ finishReason' = [finishReason EXCEPT ![c] =
                        IF event.FinishReason # "" THEN event.FinishReason ELSE @]
    /\ UNCHANGED <<aggVars, spawnVars, sessPc, sessChannel, sessBus, sessErr, ctxDone,
                   iteration, toolIdx, messages, script, sessOf, prompt, runsLeft, returned, authors>>

\* The stream is closed: the assistant message is appended; the loop goes on
\* to the tool calls when the finish reason is tool_calls and there are
\* some, and returns nil otherwise
StreamClosed(c) ==
    /\ sessPc[c] = "stream"
    /\ MayClose(c)
    /\ messages' = [messages EXCEPT ![sessOf[c]] =
            AppendMessage(@, Message("assistant", assistantMsg[c], toolCalls[c], ""))]
    /\ authors' = [authors EXCEPT ![sessOf[c]] = AppendAuthor(@, c)]
    /\ IF finishReason[c] = "tool_calls" /\ Len(toolCalls[c]) > 0
       THEN /\ sessPc' = [sessPc EXCEPT ![c] = "tools"]
            /\ toolIdx' = [toolIdx EXCEPT ![c] = 1]
       ELSE /\ sessPc' = [sessPc EXCEPT ![c] = "finish"]
            /\ UNCHANGED toolIdx
    /\ UNCHANGED <<busVars, aggVars, spawnVars, published, sessChannel, sessBus,
                   sessErr, ctxDone, iteration, assistantMsg, toolCalls, finishReason,
                   script, evLeft, sessOf, prompt, runsLeft, returned>>

\* executeToolCalls: "for _, tc := range toolCalls", the call of pass i
CallAt_Reversed(calls, i) == calls[Len(calls) + 1 - i]
CallAt(calls, i) == calls[i]

\* executeToolCalls: the tool-call event of the next call
ToolCallPublish(c) ==
    /\ sessPc[c] = "tools"
    /\ LET tc == CallAt(toolCalls[c], toolIdx[c])
       IN  Publish(c, [SessionEvent(c, "tool-call") EXCEPT
                !.ToolName = tc.Name, !.ToolCallID = tc.ID,
                !.ToolArgs = Unmarshal(tc.Arguments), !.Iteration = iteration[c]])
    /\ sessPc' = [sessPc EXCEPT ![c] = "exec"]
    /\ UNCHANGED <<aggVars, spawnVars, sessChannel, sessBus, sessErr, ctxDone,
                   iteration, assistantMsg, toolCalls, finishReason, toolIdx, messages,
                   script, evLeft, sessOf, prompt, runsLeft, returned, authors>>

\* tool.Result of ExecuteWithContext
ToolResults == {[Content |-> <<"r">>, IsError |-> FALSE], [Content |-> <<"e">>, IsError |-> TRUE]}

\* tool.ErrorResult(content)
ErrorResult(content) == [Content |-> content, IsError |-> TRUE]

\* What can happen to a tool execution: the tool returns a result, returns
\* an error-flagged result, is not registered, or returns a Go error
ToolOutcomes == {"ok", "error", "unknown", "failed"}

\* Manager.ExecuteWithContext: the result and the Go error of the call; an
\* unregistered name is an error result and a nil error
ExecuteWithContext(name, outcome) ==
    CASE outcome = "unknown" ->
            [result |-> ErrorResult(<<"unknown tool: ", name>>), err |-> <<>>]
      [] outcome = "ok" -> [result |-> [Content |-> <<"r">>, IsError |-> FALSE], err |-> <<>>]
      [] outcome = "error" -> [result |-> ErrorResult(<<"e">>), err |-> <<>>]
      [] outcome = "failed" -> [result |-> [Content |-> <<>>, IsError |-> FALSE],
                                err |-> <<"x">>]

\* executeToolCalls: result, err := ExecuteWithContext(...); a Go error
\* becomes the error result "Error executing tool: ..."
ExecuteResult_Raw(name, outcome) == ExecuteWithContext(name, outcome).result
ExecuteResult(name, outcome) ==
    LET r == ExecuteWithContext(name, outcome)
    IN  IF r.err # <<>> THEN ErrorResult(<<"Error executing tool: ">> \o r.err)
        ELSE r.result

\* fmt.Sprintf("Error: %s", result.Content)
ErrorContent(content) == <<"E", "r", "r", "o", "r", ":", " ">> \o content

\* executeToolCalls: the call is executed, its tool-error or tool-result
\* event published and its tool message appended; then the next call, or
\* back to the top of the loop after the last one
ToolExec(c, result) ==
    /\ sessPc[c] = "exec"
    /\ LET tc == CallAt(toolCalls[c], toolIdx[c])
       IN  /\ IF result.IsError
              THEN Publish(c, [SessionEvent(c, "tool-error") EXCEPT
                        !.ToolCallID = tc.ID, !.Error = result.Content])
              ELSE Publish(c, [SessionEvent(c, "tool-result") EXCEPT
                        !.ToolCallID = tc.ID, !.ToolName = tc.Name,
                        !.ToolResult = result.Content])
           /\ messages' = [messages EXCEPT ![sessOf[c]] =
                AppendMessage(@, Message("tool",
                    IF result.IsError THEN ErrorContent(result.Content) ELSE result.Content,
                    <<>>, tc.ID))]
           /\ authors' = [authors EXCEPT ![sessOf[c]] = AppendAuthor(@, c)]
    /\ IF toolIdx[c] < Len(toolCalls[c])
       THEN /\ toolIdx' = [toolIdx EXCEPT ![c] = @ + 1]
            /\ sessPc' = [sessPc EXCEPT ![c] = "tools"]
       ELSE /\ sessPc' = [sessPc EXCEPT ![c] = "loop"]
            /\ UNCHANGED toolIdx
    /\ UNCHANGED <<aggVars, spawnVars, sessChannel, sessBus, sessErr, ctxDone,
                   iteration, assistantMsg, toolCalls, finishReason, script, evLeft, sessOf, prompt, runsLeft, returned>>

\* ProcessMessage after processLoop returned: the finish event, return err
Finish(c) ==
    /\ sessPc[c] = "finish"
    /\ Publish(c, SessionEvent(c, "finish"))
    /\ returned' = [returned EXCEPT ![c] = Append(@, sessErr[c])]
    /\ sessPc' = [sessPc EXCEPT ![c] = "done"]
    /\ UNCHANGED <<aggVars, spawnVars, sessChannel, sessBus, sessOf, prompt, runsLeft, sessErr,
                   ctxDone, iteration, assistantMsg, toolCalls, finishReason, toolIdx,
                   messages, authors, script, evLeft>>

\* NewSession: an empty history.  pc says which calls of ProcessMessage are
\* made, of the Session each is made on, runs how many times each is made.
NewSessionWith(pc, of, runs) ==
    /\ sessPc = pc
    /\ sessOf = of
    /\ runsLeft = runs
    /\ sessErr = [c \in Chats |-> ""]
    /\ ctxDone = [c \in Chats |-> FALSE]
    /\ iteration = [c \in Chats |-> 0]
    /\ assistantMsg = [c \in Chats |-> <<>>]
    /\ toolCalls = [c \in Chats |-> <<>>]
    /\ finishReason = [c \in Chats |-> ""]
    /\ toolIdx = [c \in Chats |-> 0]
    /\ messages = [c \in Chats |-> <<>>]
    /\ published = [c \in Chats |-> <<>>]
    /\ returned = [c \in Chats |-> <<>>]
    /\ authors = [c \in Chats |-> <<>>]

\* The same, for Sessions built with WithSystemPrompt(systemPrompt)
NewSessionCalls(pc, of, runs) ==
    /\ NewSessionWith(pc, of, runs)
    /\ prompt = [c \in Chats |-> systemPrompt]

\* One Session per chat, given one message when pc says so
NewSession(pc) ==
    NewSessionCalls(pc, [c \in Chats |-> c],
                    [c \in Chats |-> IF pc[c] = "idle" THEN 1 ELSE 0])

\* handleStreamMessages: one pass of the loop that receives a message; a
\* message of another channel is skipped
StreamConsumer ==
    /\ chanCtx # "done"
    /\ chanCtx' = IF chanCtx = "draining" THEN "done" ELSE chanCtx
    /\ stream # <<>>
    /\ stream' = Dequeue(stream)
    /\ LET msg == Head(stream)
       IN  IF msg.Channel # "telegram"
           THEN UNCHANGED <<streamStates, aggLog, finalOf, handled>>
           ELSE /\ handleStreamEvent(msg)
                /\ handled' = [handled EXCEPT ![msg.ChatID] = Append(@, msg)]
    /\ UNCHANGED <<inbound, outbound, closed, closePc, closeCalls, closePanic,
                   pubPc, pubKind, pubMsg, pubCalls, conPc, conKind, conRet, conCalls,
                   cancelled, sent, received, busKind, pubBudget, conBudget,
                   aggScenario, aggBudget, aggFed, allowList, senders, sessVars, spawnVars>>

\* handleStreamMessages: "case <-ctx.Done(): return", at the top of the loop
\* or after SubscribeStream returned ok = false
ConsumerReturns ==
    /\ chanCtx = "draining"
    /\ chanCtx' = "done"
    /\ UNCHANGED <<busVars, sessVars, spawnVars, streamStates, aggLog, finalOf, aggScenario,
                   aggBudget, aggFed, handled, allowList, senders>>

\* The ctx given to Start is cancelled and with it the ctx of every running
\* call of ProcessMessage, which is derived from it
CancelRoot ==
    /\ chanCtx = "live"
    /\ \E c \in Chats : sessPc[c] \in {"loop", "send", "stream", "tools", "exec"}
    /\ chanCtx' = "draining"
    /\ ctxDone' = [c \in Chats |->
                     ctxDone[c] \/ sessPc[c] \in {"loop", "send", "stream", "tools", "exec"}]
    /\ UNCHANGED <<busVars, spawnVars, streamStates, aggLog, finalOf, aggScenario,
                   aggBudget, aggFed, handled, allowList, senders>>
    /\ UNCHANGED <<published, sessPc, sessChannel, sessBus, sessErr, iteration,
                   assistantMsg, toolCalls, finishReason, toolIdx, messages, script,
                   evLeft, sessOf, prompt, runsLeft, returned, authors>>

\* The loop of handleStreamMessages run by the consumer of another channel:
\* SubscribeStream hands it the next message of the one stream channel, and
\* it skips a message that is not of its channel
OtherStreamConsumer(channel) ==
    /\ stream # <<>>
    /\ Head(stream).Channel # channel
    /\ stream' = Dequeue(stream)
    /\ UNCHANGED <<inbound, outbound, closed, closePc, closeCalls, closePanic,
                   pubPc, pubKind, pubMsg, pubCalls, conPc, conKind, conRet, conCalls,
                   cancelled, sent, received, busKind, pubBudget, conBudget,
                   aggVars, sessVars, spawnVars>>

----------------------------------------------------------------------------
(* pkg/tool: SubagentManager.RunSync and SpawnTool.Execute *)

\* NewSubagentManager: maxIterations: 10
maxIterations == 10

\* The cap of the content preview in the report of Execute
maxPreviewLen == 300

\* fmt.Sprintf("task-%d", i+1), for the 1-based position n of the task
DefaultLabel_FromZero(n) == <<"task-", n - 1>>
DefaultLabel(n) == <<"task-", n>>

\* The zero SubagentResult of make([]SubagentResult, n); written tells
\* whether the slot has been assigned
ZeroResult ==
    [Label |-> "", Content |-> <<>>, IsError |-> FALSE, Iteration |-> 0, written |-> FALSE]

SubagentResult(label, content, isError, iter) ==
    [Label |-> label, Content |-> content, IsError |-> isError, Iteration |-> iter,
     written |-> FALSE]

\* The locals of a RunSync call.  pc: "none" (not launched) | "loop" |
\* "tools" | "store" (RunSync returned) | "defer" (slot assigned) | "exit".
\* toolFailed and providerFailed record what happened to the unit, calls
\* counts the SendStream calls it made, lateCall and lateTools record a
\* SendStream call that succeeded, and a pass over the tool calls that was
\* made, when subCtx was already cancelled; rank is the place of the unit in
\* the order in which the units assigned their slots (0: not yet).
NoUnit ==
    [pc |-> "none", label |-> "", iteration |-> 0, messages |-> <<>>,
     toolCalls |-> <<>>, finalContent |-> <<>>, result |-> ZeroResult,
     rounds |-> 0, toolFailed |-> FALSE, providerFailed |-> FALSE, calls |-> 0,
     lateCall |-> FALSE, lateTools |-> FALSE, rank |-> 0]

\* The streams a provider can answer a unit's request with
Responses ==
    {<<>>,
     <<ResponseEvent(<<"a">>, NoToolCall, ""), ResponseEvent(<<>>, NoToolCall, "stop")>>,
     <<ToolCallEvent, ResponseEvent(<<>>, NoToolCall, "tool_calls")>>,
     <<ResponseEvent(<<"a">>, NoToolCall, ""), ToolCallEvent,
       ResponseEvent(<<>>, NoToolCall, "tool_calls")>>}

\* for event := range stream { ... }: the assistant text, the tool calls and
\* the last finish reason of a stream
RECURSIVE ReadStream(_, _)
ReadStream(events, acc) ==
    IF events = <<>> THEN acc
    ELSE LET event == Head(events)
         IN  ReadStream(Tail(events),
                [assistantMsg |-> acc.assistantMsg \o event.Delta,
                 toolCalls |-> IF event.ToolCall.nil THEN acc.toolCalls
                               ELSE Append(acc.toolCalls, event.ToolCall),
                 finishReason |-> IF event.FinishReason # "" THEN event.FinishReason
                                  ELSE acc.finishReason])

AsksForTools(events) == \E k \in 1..Len(events) : ~events[k].ToolCall.nil

\* SpawnTool.Execute up to the for loop: no task, or no manager, is an
\* error result; otherwise the result slots and the cancellable subCtx
SpawnExecute(hasManager) ==
    /\ spawnPc = "idle"
    /\ IF Len(spawnTasks) = 0
       THEN /\ spawnRet' = [Content |-> "tasks array is required and must not be empty",
                            IsError |-> TRUE]
            /\ spawnPc' = "returned"
            /\ UNCHANGED results
       ELSE IF ~hasManager
       THEN /\ spawnRet' = [Content |-> "Subagent manager not configured", IsError |-> TRUE]
            /\ spawnPc' = "returned"
            /\ UNCHANGED results
       ELSE /\ results' = [n \in 1..Len(spawnTasks) |-> ZeroResult]
            /\ spawnPc' = "launch"
            /\ UNCHANGED spawnRet
    /\ UNCHANGED <<busVars, aggVars, sessVars, spawnTasks, unitRounds, unitScript, msgVars, launchIdx, wg,
                   units, subCtxDone>>

\* RunSync: the fixed system prompt of a subagent
subagentPrompt == <<"S">>

\* RunSync: messages := []model.Message{{system, systemPrompt}, {user, task}}
SeedMessages(task) ==
    <<Message("system", subagentPrompt, <<>>, ""), Message("user", task, <<>>, "")>>

\* One pass of "for i, task := range a.Tasks": wg.Add(1), the label, and the
\* goroutine that runs RunSync, which starts with the two seed messages
Launch ==
    /\ spawnPc = "launch"
    /\ launchIdx < Len(spawnTasks)
    /\ LET n == launchIdx + 1
           task == spawnTasks[n]
           label == IF task.Label = "" THEN DefaultLabel(n) ELSE task.Label
       IN  units' = [units EXCEPT ![n] =
                [NoUnit EXCEPT !.pc = "loop", !.label = label,
                               !.messages = SeedMessages(task.Task)]]
    /\ wg' = wg + 1
    /\ launchIdx' = launchIdx + 1
    /\ spawnPc' = IF launchIdx + 1 = Len(spawnTasks) THEN "wait" ELSE "launch"
    /\ UNCHANGED <<busVars, aggVars, sessVars, spawnTasks, unitRounds, unitScript, msgVars, results,
                   subCtxDone, spawnRet>>

\* "Error: " + content, fmt.Sprintf("Error: %v", err)
ErrorPrefix(content) == <<"E", "r", "r", "o", "r", ":", " ">> \o content

\* The value RunSync returns when its loop ends (by break or at the cap)
LoopResult_Flagged(u, content, iter) == SubagentResult(u.label, content, u.toolFailed, iter)
LoopResult(u, content, iter) == SubagentResult(u.label, content, FALSE, iter)

\* RunSync: the condition of "for iteration < sm.maxIterations"
LoopGuard_OffByOne(iter) == iter <= maxIterations
LoopGuard(iter) == iter < maxIterations

\* The stream of a provider that asks for a tool in every answer
ToolStream == <<ToolCallEvent, ResponseEvent(<<>>, NoToolCall, "tool_calls")>>

\* Provider.SendStream builds its request with http.NewRequestWithContext:
\* with a cancelled ctx, client.Do returns an error and no stream is opened
SendsWhenDone_Ignored == TRUE
SendsWhenDone == FALSE

\* RunSync: one pass of "for iteration < sm.maxIterations" up to the tool
\* calls.  ok: SendStream succeeded; events: the stream it returned.  When
\* the loop condition fails no call is made.
UnitIterate(n, ok, events) ==
    /\ spawnPc \in {"launch", "wait"}
    /\ units[n].pc = "loop"
    /\ ~ok => events = <<>>
    /\ IF LoopGuard(units[n].iteration)
       THEN /\ AsksForTools(events) => units[n].rounds < unitRounds[n]
            /\ IF subCtxDone
               THEN ok => SendsWhenDone
               ELSE /\ unitScript[n] = "tools" => ok /\ events = ToolStream
                    /\ unitScript[n] = "flaky" => (ok => events = ToolStream)
       ELSE ok /\ events = <<>>
    /\ LET u == units[n]
           r == ReadStream(events, [assistantMsg |-> <<>>, toolCalls |-> <<>>,
                                    finishReason |-> ""])
           iter == u.iteration + 1
       IN  units' = [units EXCEPT ![n] =
             IF ~LoopGuard(u.iteration)
             THEN [u EXCEPT !.pc = "store",
                            !.result = LoopResult(u, u.finalContent, u.iteration)]
             ELSE IF ~ok
             THEN [u EXCEPT !.pc = "store", !.iteration = iter, !.providerFailed = TRUE,
                            !.calls = @ + 1,
                            !.result = SubagentResult(u.label, ErrorPrefix(<<"p">>), TRUE, 0)]
             ELSE IF r.finishReason # "tool_calls" \/ Len(r.toolCalls) = 0
             THEN [u EXCEPT !.pc = "store", !.iteration = iter, !.calls = @ + 1,
                            !.lateCall = @ \/ subCtxDone,
                            !.messages = Append(@, Message("assistant", r.assistantMsg,
                                                           r.toolCalls, "")),
                            !.finalContent = @ \o r.assistantMsg,
                            !.result = LoopResult(u, u.finalContent \o r.assistantMsg, iter)]
             ELSE [u EXCEPT !.pc = "tools", !.iteration = iter, !.calls = @ + 1,
                            !.lateCall = @ \/ subCtxDone,
                            !.messages = Append(@, Message("assistant", r.assistantMsg,
                                                           r.toolCalls, "")),
                            !.toolCalls = r.toolCalls,
                            !.rounds = @ + 1]]
    /\ UNCHANGED <<busVars, aggVars, sessVars, spawnPc, spawnTasks, unitRounds, unitScript, msgVars,
                   launchIdx, wg, results, subCtxDone, spawnRet>>

\* RunSync: "for _, tc := range toolCalls": every call is executed and its
\* tool message appended, an error result as "Error: ..."; then the next pass
UnitExecTools(n, res) ==
    /\ spawnPc \in {"launch", "wait"}
    /\ units[n].pc = "tools"
    /\ res \in [1..Len(units[n].toolCalls) -> ToolResults]
    /\ units' = [units EXCEPT ![n] =
            [@ EXCEPT !.pc = "loop",
                      !.lateTools = @ \/ subCtxDone,
                      !.messages = @ \o
                          [k \in 1..Len(units[n].toolCalls) |->
                              Message("tool",
                                      IF res[k].IsError THEN ErrorPrefix(res[k].Content)
                                      ELSE res[k].Content,
                                      <<>>, units[n].toolCalls[k].ID)],
                      !.toolFailed = @ \/ \E k \in 1..Len(units[n].toolCalls) : res[k].IsError]]
    /\ UNCHANGED <<busVars, aggVars, sessVars, spawnPc, spawnTasks, unitRounds, unitScript, msgVars, launchIdx,
                   wg, results, subCtxDone, spawnRet>>

\* go func(index int, ...) {...}(i, ...): the slot a unit writes is the
\* argument bound when it was launched, not the loop variable idx
StoreIndex_Captured(n, idx) == idx
StoreIndex(n, idx) == n

\* The goroutine: results[index] = result
UnitStore(n) ==
    /\ units[n].pc = "store"
    /\ results' = [results EXCEPT ![StoreIndex(n, launchIdx)] =
                        [units[n].result EXCEPT !.written = TRUE]]
    /\ units' = [units EXCEPT ![n].pc = "defer",
                              ![n].rank = 1 + Cardinality({m \in DOMAIN units :
                                                              units[m].rank > 0})]
    /\ UNCHANGED <<busVars, aggVars, sessVars, spawnPc, spawnTasks, unitRounds, unitScript, msgVars, launchIdx,
                   wg, subCtxDone, spawnRet>>

\* The goroutine: the deferred wg.Done()
UnitDone(n) ==
    /\ units[n].pc = "defer"
    /\ wg' = wg - 1
    /\ units' = [units EXCEPT ![n].pc = "exit"]
    /\ UNCHANGED <<busVars, aggVars, sessVars, spawnPc, spawnTasks, unitRounds, unitScript, msgVars, launchIdx,
                   results, subCtxDone, spawnRet>>

\* The ctx given to Execute is cancelled (a timeout, or the caller), and
\* with it subCtx, which context.WithCancel derived from it
CancelScope ==
    /\ spawnPc \in {"launch", "wait"}
    /\ ~subCtxDone
    /\ subCtxDone' = TRUE
    /\ UNCHANGED <<busVars, aggVars, sessVars, spawnPc, spawnTasks, unitRounds, unitScript, msgVars,
                   launchIdx, wg, units, results, spawnRet>>

\* wg.Wait() returns when the counter is zero
WaitReady_Skipped(count) == TRUE
WaitReady(count) == count = 0

\* One entry of the report of Execute
ReportEntry(r) ==
    IF r.IsError
    THEN [ok |-> FALSE, label |-> r.Label, iterations |-> 0, content |-> r.Content]
    ELSE [ok |-> TRUE, label |-> r.Label, iterations |-> r.Iteration,
          content |-> Preview(r.Content, maxPreviewLen)]

\* Execute after the for loop: wg.Wait(), the report over results, and the
\* deferred cancel() of subCtx
WaitReturn ==
    /\ spawnPc = "wait"
    /\ WaitReady(wg)
    /\ spawnRet' = [Content |-> [n \in 1..Len(results) |-> ReportEntry(results[n])],
                    IsError |-> FALSE]
    /\ subCtxDone' = TRUE
    /\ spawnPc' = "returned"
    /\ UNCHANGED <<busVars, aggVars, sessVars, spawnTasks, unitRounds, unitScript, msgVars, launchIdx, wg,
                   units, results>>

\* Bounds of the spawn scenarios: the number of tasks, and the tool rounds
\* the provider of a unit asks for
MaxTasks == 2
MaxToolRounds == 1

\* The SpawnTool before a call of Execute; pc says whether a call is made
NewSpawnTool(pc) ==
    /\ spawnPc = pc
    /\ launchIdx = 0
    /\ wg = 0
    /\ units = [n \in 1..(MaxTasks) |-> NoUnit]
    /\ results = <<>>
    /\ subCtxDone = FALSE
    /\ spawnRet = [Content |-> <<>>, IsError |-> FALSE]

----------------------------------------------------------------------------
(* pkg/tool: Manager.ExecuteWithContext and the MessageTool *)

\* The callers of the message tool of one registry: the Sessions that process
\* the chats, and a subagent unit spawned for chat "1"
MsgCallers == Chats \cup {"sub"}

\* The chat a caller works for, and the channel of each chat
ChatOf(caller) == IF caller = "sub" THEN "1" ELSE caller
ChannelOf(chat) == IF chat = "1" THEN "telegram" ELSE "cli"

\* The channel and chatID arguments of the caller's ExecuteWithContext:
\* executeToolCalls passes those of its message, RunSync calls
\* Manager.Execute, which passes "", ""
ChannelArg(caller) == IF caller = "sub" THEN "" ELSE ChannelOf(caller)
ChatIDArg(caller) == IF caller = "sub" THEN "" ELSE caller

\* bus.OutboundMessage{Channel, ChatID, Content}
OutboundMessage(channel, chatID, content) ==
    [Channel |-> channel, ChatID |-> chatID, Content |-> content]

\* The content argument of a caller's call: a text of that caller
ContentArg(caller) == <<"m", caller>>

NoMsgCall == [pc |-> "idle", channel |-> ""]

\* ExecuteWithContext(ctx, "message", args, channel, chatID) is entered: the
\* tool is registered and is a ContextualTool
\* if ... ok && channel != "" && chatID != "" { contextualTool.SetContext(..) }
SetsContext(caller) == ChannelArg(caller) # "" /\ ChatIDArg(caller) # ""

MessageCall(caller) ==
    /\ msgCall[caller].pc = "idle"
    /\ msgLeft[caller] > 0
    /\ msgLeft' = [msgLeft EXCEPT ![caller] = @ - 1]
    /\ msgCall' = [msgCall EXCEPT ![caller].pc =
                      IF SetsContext(caller) THEN "setChannel" ELSE "check"]
    /\ UNCHANGED <<busVars, aggVars, sessVars, spawnPc, spawnTasks, unitRounds, unitScript,
                   launchIdx, wg, units, results, subCtxDone, spawnRet,
                   currentChannel, currentChatID>>

\* SetContext: t.currentChannel = channel (no lock is taken)
SetContextChannel(caller) ==
    /\ msgCall[caller].pc = "setChannel"
    /\ currentChannel' = ChannelArg(caller)
    /\ msgCall' = [msgCall EXCEPT ![caller].pc = "setChatID"]
    /\ UNCHANGED <<busVars, aggVars, sessVars, spawnPc, spawnTasks, unitRounds, unitScript,
                   launchIdx, wg, units, results, subCtxDone, spawnRet,
                   currentChatID, msgLeft>>

\* SetContext: t.currentChatID = chatID
SetContextChatID(caller) ==
    /\ msgCall[caller].pc = "setChatID"
    /\ currentChatID' = ChatIDArg(caller)
    /\ msgCall' = [msgCall EXCEPT ![caller].pc = "check"]
    /\ UNCHANGED <<busVars, aggVars, sessVars, spawnPc, spawnTasks, unitRounds, unitScript,
                   launchIdx, wg, units, results, subCtxDone, spawnRet,
                   currentChannel, msgLeft>>

\* MessageTool.Execute: the arguments decode and the content is not empty;
\* if t.bus == nil || t.currentChannel == "" || t.currentChatID == "" the
\* call returns an error result (the bus is set)
MessageCheck(caller) ==
    /\ msgCall[caller].pc = "check"
    /\ msgCall' = [msgCall EXCEPT ![caller].pc =
                      IF currentChannel = "" \/ currentChatID = "" THEN "idle" ELSE "read"]
    /\ UNCHANGED <<busVars, aggVars, sessVars, spawnPc, spawnTasks, unitRounds, unitScript,
                   launchIdx, wg, units, results, subCtxDone, spawnRet,
                   currentChannel, currentChatID, msgLeft>>

\* MessageTool.Execute: Channel: t.currentChannel of the message it builds
MessageReadChannel(caller) ==
    /\ msgCall[caller].pc = "read"
    /\ msgCall' = [msgCall EXCEPT ![caller] = [pc |-> "publish", channel |-> currentChannel]]
    /\ UNCHANGED <<busVars, aggVars, sessVars, spawnPc, spawnTasks, unitRounds, unitScript,
                   launchIdx, wg, units, results, subCtxDone, spawnRet,
                   currentChannel, currentChatID, msgLeft>>

\* MessageTool.Execute: ChatID: t.currentChatID, and t.bus.PublishOutbound
MessagePublish(caller) ==
    /\ msgCall[caller].pc = "publish"
    /\ ~closed["outbound"]
    /\ SendReady("outbound")
    /\ LET msg == OutboundMessage(msgCall[caller].channel, currentChatID, ContentArg(caller))
       IN  /\ SetChan("outbound", Enqueue(outbound, msg))
           /\ sent' = [sent EXCEPT !["outbound"] = Append(@, msg)]
    /\ msgCall' = [msgCall EXCEPT ![caller] = NoMsgCall]
    /\ UNCHANGED <<closed, closePc, closeCalls, closePanic, pubPc, pubKind, pubMsg,
                   pubCalls, conPc, conKind, conRet, conCalls, cancelled, received,
                   busKind, pubBudget, conBudget>>
    /\ UNCHANGED <<aggVars, sessVars, spawnPc, spawnTasks, unitRounds, unitScript,
                   launchIdx, wg, units, results, subCtxDone, spawnRet,
                   currentChannel, currentChatID, msgLeft>>

\* NewMessageTool: no context yet; left says how often each caller calls
NewMessageTool(left) ==
    /\ currentChannel = ""
    /\ currentChatID = ""
    /\ msgCall = [caller \in MsgCallers |-> NoMsgCall]
    /\ msgLeft = left

----------------------------------------------------------------------------
(* Scenarios and specifications *)

\* No direct feeding of events
AggIdle ==
    /\ NewTelegramChannel
    /\ NewBaseChannel(<<>>)
    /\ aggScenario = "none"
    /\ aggBudget = 0

\* The events fed directly in a scenario: "text": text, lifecycle and a tool
\* call of one chat; "tools": tool calls of one chat, with repeated ids;
\* "runs": the events of several runs of one chat, each ended by finish or
\* error; "throttle": text and tool events of one run of one chat, with or
\* without a pause before each
FedEvents(scenario) ==
    CASE scenario = "text" ->
            TextEvents("1") \cup ControlEvents("1")
            \cup ToolCallEvents("1", {"t1"}, {"ls"})
            \cup ToolResultEvents("1", {"t1", "t2"})
      [] scenario = "runs" ->
            {[Event("text-start", "1") EXCEPT !.Delta = "main"],
             [Event("text-delta", "1") EXCEPT !.Delta = "main", !.Content = <<"a">>],
             Event("finish", "1"),
             [Event("error", "1") EXCEPT !.Content = <<"p">>]}
            \cup ToolCallEvents("1", {"t1"}, {"ls"})
      [] scenario = "throttle" ->
            {[Event("text-start", "1") EXCEPT !.Delta = "main"],
             [Event("text-delta", "1") EXCEPT !.Delta = "main", !.Content = <<"a">>]}
            \cup ToolCallEvents("1", {"t1"}, {"ls"})
            \cup ToolResultEvents("1", {"t1"})
            \cup ToolErrorEvents("1", {"t1"})
      [] scenario = "tie" ->
            {[Event("text-start", "1") EXCEPT !.Delta = id] : id \in {"main", "alt", "t1"}}
            \cup {[Event("text-delta", "1") EXCEPT !.Delta = "main", !.Content = <<"a">>],
                  [Event("text-delta", "1") EXCEPT !.Delta = "alt", !.Content = <<"b">>]}
      [] scenario = "frame" ->
            {[Event("text-start", "1") EXCEPT !.Delta = "main"]}
            \cup ToolCallEvents("1", {"t1", "t2"}, {"ls"})
            \cup ToolResultEvents("1", {"t1", "t2"})
            \cup ToolErrorEvents("1", {"t1", "t2"})
      [] scenario = "tools" ->
            ToolCallEvents("1", {"t1", "t2"}, {"ls", "cat"})
            \cup ToolResultEvents("1", {"t1"})
            \cup ToolErrorEvents("1", {"t2"})
            \cup {Event("finish", "1")}
      [] OTHER -> {}

\* No call of SpawnTool.Execute
SpawnOff ==
    /\ NewSpawnTool("off")
    /\ spawnTasks = <<>>
    /\ unitRounds = [n \in 1..MaxTasks |-> 0]
    /\ unitScript = [n \in 1..MaxTasks |-> "any"]

\* No call of the message tool
MessageIdle == NewMessageTool([caller \in MsgCallers |-> 0])

\* Neither
SpawnIdle == SpawnOff /\ MessageIdle

\* No Session is given a message
SessIdle ==
    /\ NewSession([c \in Chats |-> "off"])
    /\ sessChannel = [c \in Chats |-> "telegram"]
    /\ sessBus = [c \in Chats |-> TRUE]
    /\ script = [c \in Chats |-> "any"]
    /\ evLeft = [c \in Chats |-> 0]

\* The bus with no publisher and no consumer
BusIdle ==
    /\ NewMessageBus
    /\ busKind = "stream"
    /\ pubBudget = [p \in Publishers |-> 0]
    /\ conBudget = [c \in Consumers |-> 0]

\* Several publishers and several consumers on one channel
BusInit ==
    /\ NewMessageBus
    /\ AggIdle
    /\ SessIdle
    /\ SpawnIdle
    /\ pubBudget = [p \in Publishers |-> MaxPublish]
    /\ conBudget = [c \in Consumers |-> MaxConsume]

\* One publisher sends a burst longer than the buffer; one consumer
BurstInit ==
    /\ NewMessageBus
    /\ AggIdle
    /\ SessIdle
    /\ SpawnIdle
    /\ pubBudget = [p \in Publishers |-> IF p = "p1" THEN MaxBurst ELSE 0]
    /\ conBudget = [c \in Consumers |-> IF c = "c1" THEN MaxBurstConsume ELSE 0]

\* A few calls, for the behaviours checked under fairness
FairBusInit ==
    /\ NewMessageBus
    /\ AggIdle
    /\ SessIdle
    /\ SpawnIdle
    /\ pubBudget = [p \in Publishers |-> MaxPublishFair]
    /\ conBudget = [c \in Consumers |-> MaxConsumeFair]

BusNext ==
    \/ \E p \in Publishers : PublishCall(p, busKind)
    \/ \E p \in Publishers : PublishSend(p)
    \/ \E c \in Consumers : ConsumeCall(c, busKind)
    \/ \E c \in Consumers : ConsumeMsg(c)
    \/ \E c \in Consumers : ConsumeCancelled(c)
    \/ \E c \in Consumers : Cancel(c)

BurstNext ==
    \/ \E p \in Publishers : PublishCall(p, busKind)
    \/ \E p \in Publishers : PublishSend(p)
    \/ \E c \in Consumers : ConsumeCall(c, busKind)
    \/ \E c \in Consumers : ConsumeMsg(c)

\* The select of a consume call returns once one of its cases is ready
ConsumeReturn(c) == ConsumeMsg(c) \/ ConsumeCancelled(c)

SpecBus == BusInit /\ [][BusNext]_vars

\* A few publish and consume calls on one channel, and calls of Close
CloseInit ==
    /\ NewMessageBus
    /\ AggIdle
    /\ SessIdle
    /\ SpawnIdle
    /\ pubBudget = [p \in Publishers |-> IF p = "p1" THEN MaxPublishFair ELSE 0]
    /\ conBudget = [c \in Consumers |-> IF c = "c1" THEN MaxConsumeFair ELSE 0]

CloseNext ==
    \/ \E p \in Publishers : PublishCall(p, busKind)
    \/ \E p \in Publishers : PublishSend(p)
    \/ \E p \in Publishers : PublishPanic(p)
    \/ \E c \in Consumers : ConsumeCall(c, busKind)
    \/ \E c \in Consumers : ConsumeMsg(c)
    \/ \E c \in Consumers : ConsumeClosed(c)
    \/ CloseCall
    \/ CloseStep

SpecClose == CloseInit /\ [][CloseNext]_vars

\* Messages of Telegram users arrive at a channel with a configured
\* allow-list.  A sender id is the numeric user id, followed by "|" and the
\* username when the user has one; an entry of the list is any string of the
\* configuration file.
UserIDs == {<<"1">>, <<"2">>}
Usernames == {<<"a">>, <<"1">>}
SenderIDs == UserIDs \cup {u \o <<"|">> \o n : u \in UserIDs, n \in Usernames}
PlainEntries == SenderIDs \cup Usernames \cup {<<"|", "a">>, <<"1", "|">>, <<>>}
AllowEntries == PlainEntries \cup {<<"@">> \o e : e \in PlainEntries}
MaxAllow == 2
MaxHandle == 1
AllowLists == UNION {[1..n -> AllowEntries] : n \in 0..MaxAllow}

AllowInit ==
    /\ NewMessageBus
    /\ pubBudget = [p \in Publishers |-> 0]
    /\ conBudget = [c \in Consumers |-> 0]
    /\ NewTelegramChannel
    /\ \E list \in AllowLists : NewBaseChannel(list)
    /\ aggScenario = "none"
    /\ aggBudget = MaxHandle
    /\ SessIdle
    /\ SpawnIdle

AllowNext == \E senderID \in SenderIDs : HandleMessage(senderID, "1")

SpecAllow == AllowInit /\ [][AllowNext]_vars

SpecBurst == BurstInit /\ [][BurstNext]_vars

FairSpecBus ==
    /\ FairBusInit
    /\ [][BusNext]_vars
    /\ \A c \in Consumers : WF_vars(ConsumeReturn(c))

\* Text, lifecycle and a tool call of one chat, in any order
AggInit ==
    /\ BusIdle
    /\ SessIdle
    /\ SpawnIdle
    /\ NewTelegramChannel
    /\ NewBaseChannel(<<>>)
    /\ aggBudget = MaxAggEvents
    /\ aggScenario = "text"

\* Tool calls of one chat, with repeated ids, in any order
AggToolsInit ==
    /\ BusIdle
    /\ SessIdle
    /\ SpawnIdle
    /\ NewTelegramChannel
    /\ NewBaseChannel(<<>>)
    /\ aggBudget = MaxToolEvents
    /\ aggScenario = "tools"

AggNext == \E msg \in FedEvents(aggScenario) : HandleStreamEvent(msg)

SpecAgg == AggInit /\ [][AggNext]_vars

SpecAggTools == AggToolsInit /\ [][AggNext]_vars

\* The events and user messages handled in the scenario of several runs
MaxRunEvents == 5

\* Several runs of one chat, and messages of the user arriving in between
AggRunsInit ==
    /\ BusIdle
    /\ SessIdle
    /\ SpawnIdle
    /\ NewTelegramChannel
    /\ NewBaseChannel(<<>>)
    /\ aggBudget = MaxRunEvents
    /\ aggScenario = "runs"

AggRunsNext ==
    \/ \E msg \in FedEvents(aggScenario) : HandleStreamEvent(msg)
    \/ HandleInbound("1")

SpecAggRuns == AggRunsInit /\ [][AggRunsNext]_vars

\* The events handled in the scenario of the throttle
MaxThrottleEvents == 4

\* Text and tool events of one run of one chat, at any pace
ThrottleInit ==
    /\ BusIdle
    /\ SessIdle
    /\ SpawnIdle
    /\ NewTelegramChannel
    /\ NewBaseChannel(<<>>)
    /\ aggBudget = MaxThrottleEvents
    /\ aggScenario = "throttle"

SpecThrottle == ThrottleInit /\ [][AggNext]_vars

\* The events handled in the scenario of the text parts
MaxTieEvents == 5

\* Text parts of three ids of one chat, started and filled in any order
AggTieInit ==
    /\ BusIdle
    /\ SessIdle
    /\ SpawnIdle
    /\ NewTelegramChannel
    /\ NewBaseChannel(<<>>)
    /\ aggBudget = MaxTieEvents
    /\ aggScenario = "tie"

SpecAggTie == AggTieInit /\ [][AggNext]_vars

\* The events handled in the scenario of the tool parts
MaxFrameEvents == 4

\* A text part and tool calls, results and errors of two ids of one chat, in
\* any order, so that results and errors arrive with and without their part
AggFrameInit ==
    /\ BusIdle
    /\ SessIdle
    /\ SpawnIdle
    /\ NewTelegramChannel
    /\ NewBaseChannel(<<>>)
    /\ aggBudget = MaxFrameEvents
    /\ aggScenario = "frame"

SpecAggFrame == AggFrameInit /\ [][AggNext]_vars

\* Bounds of the Session scenarios: the events a provider that sends any
\* events emits in a run, alone and next to a scripted one
MaxSessionEvents == 5
MaxEventsEach == 0

\* One Session of a telegram chat runs with any provider
SessInit ==
    /\ BusIdle
    /\ AggIdle
    /\ SpawnIdle
    /\ NewSession([c \in Chats |-> IF c = "1" THEN "idle" ELSE "off"])
    /\ sessChannel = [c \in Chats |-> "telegram"]
    /\ sessBus = [c \in Chats |-> TRUE]
    /\ script = [c \in Chats |-> "any"]
    /\ evLeft = [c \in Chats |-> IF c = "1" THEN MaxSessionEvents ELSE 0]

\* The Sessions of two telegram chats run concurrently: the provider of
\* chat "1" asks for a tool call and then answers, that of chat "2" sends
\* any events
TwoChatInit ==
    /\ BusIdle
    /\ AggIdle
    /\ SpawnIdle
    /\ NewSession([c \in Chats |-> "idle"])
    /\ sessChannel = [c \in Chats |-> "telegram"]
    /\ sessBus = [c \in Chats |-> TRUE]
    /\ script = [c \in Chats |-> IF c = "1" THEN "once" ELSE "any"]
    /\ evLeft = [c \in Chats |-> IF c = "1" THEN 0 ELSE MaxEventsEach]

\* Two Sessions built without a message bus: the provider of chat "1"
\* answers every request with a tool call, that of chat "2" sends any events
LoopInit ==
    /\ BusIdle
    /\ AggIdle
    /\ SpawnIdle
    /\ NewSession([c \in Chats |-> "idle"])
    /\ sessChannel = [c \in Chats |-> "telegram"]
    /\ sessBus = [c \in Chats |-> FALSE]
    /\ script = [c \in Chats |-> IF c = "1" THEN "tools" ELSE "any"]
    /\ evLeft = [c \in Chats |-> IF c = "1" THEN 0 ELSE MaxEventsEach]

\* A step of the Session of a chat
SessionStep(c) ==
    \/ ProcessMessage(c)
    \/ LoopTop(c)
    \/ SendStream(c)
    \/ \E event \in NextEvents(c) : StreamEvent(c, event)
    \/ StreamClosed(c)
    \/ ToolCallPublish(c)
    \/ \E result \in ToolResults : ToolExec(c, result)
    \/ Finish(c)

SessNext ==
    \/ \E c \in Chats : SessionStep(c)
    \/ \E c \in Chats : SendStreamFails(c)
    \/ \E c \in Chats : CancelSession(c)
    \/ \E c \in Chats : LoopCancelled(c)
    \/ StreamConsumer

TwoChatNext ==
    \/ \E c \in Chats : SessionStep(c)
    \/ StreamConsumer

LoopNext == \E c \in Chats : SessionStep(c)

SpecSession == SessInit /\ [][SessNext]_vars

\* The events the provider sends in the scenario of repeated calls
MaxRetryEvents == 2

\* One Session of a telegram chat is given two messages, one after the
\* other; the provider may fail or send any events
RetryInit ==
    /\ BusIdle
    /\ AggIdle
    /\ SpawnIdle
    /\ NewSessionCalls([c \in Chats |-> IF c = "1" THEN "idle" ELSE "off"],
                       [c \in Chats |-> c],
                       [c \in Chats |-> IF c = "1" THEN 2 ELSE 0])
    /\ sessChannel = [c \in Chats |-> "telegram"]
    /\ sessBus = [c \in Chats |-> TRUE]
    /\ script = [c \in Chats |-> "any"]
    /\ evLeft = [c \in Chats |-> IF c = "1" THEN MaxRetryEvents ELSE 0]

RetryNext ==
    \/ \E c \in Chats : SessionStep(c)
    \/ \E c \in Chats : SendStreamFails(c)

SpecRetry == RetryInit /\ [][RetryNext]_vars

\* The events the provider sends in the scenario of failing tools
MaxToolErrEvents == 3

\* One Session of a telegram chat runs with any provider and with tools
\* that can fail in every way
ToolErrInit ==
    /\ BusIdle
    /\ AggIdle
    /\ SpawnIdle
    /\ NewSession([c \in Chats |-> IF c = "1" THEN "idle" ELSE "off"])
    /\ sessChannel = [c \in Chats |-> "telegram"]
    /\ sessBus = [c \in Chats |-> TRUE]
    /\ script = [c \in Chats |-> "any"]
    /\ evLeft = [c \in Chats |-> IF c = "1" THEN MaxToolErrEvents ELSE 0]

ToolErrNext ==
    \E c \in Chats :
        \/ ProcessMessage(c)
        \/ LoopTop(c)
        \/ SendStream(c)
        \/ \E event \in NextEvents(c) : StreamEvent(c, event)
        \/ StreamClosed(c)
        \/ ToolCallPublish(c)
        \/ \E outcome \in ToolOutcomes :
                ToolExec(c, ExecuteResult(toolCalls[c][toolIdx[c]].Name, outcome))
        \/ Finish(c)

SpecToolErrors == ToolErrInit /\ [][ToolErrNext]_vars

\* The events the provider sends in the scenario of several tool calls
MaxOrderEvents == 4

\* One Session of a telegram chat runs; its provider sends any events, with
\* tool calls of two ids, and a tool execution has any outcome
ToolOrderInit ==
    /\ BusIdle
    /\ AggIdle
    /\ SpawnIdle
    /\ NewSession([c \in Chats |-> IF c = "1" THEN "idle" ELSE "off"])
    /\ sessChannel = [c \in Chats |-> "telegram"]
    /\ sessBus = [c \in Chats |-> TRUE]
    /\ script = [c \in Chats |-> "calls"]
    /\ evLeft = [c \in Chats |-> IF c = "1" THEN MaxOrderEvents ELSE 0]

SpecToolOrder == ToolOrderInit /\ [][ToolErrNext]_vars

\* The events the second provider sends in the scenario of overlapping calls
MaxOverlapEvents == 1

\* Two calls of ProcessMessage are made on one Session (built without a
\* message bus) and may overlap: the provider answers the requests of call
\* "1" with a tool call and then a text, those of call "2" with any events
OverlapInit ==
    /\ BusIdle
    /\ AggIdle
    /\ SpawnIdle
    /\ NewSessionCalls([c \in Chats |-> "idle"], [c \in Chats |-> "1"],
                       [c \in Chats |-> 1])
    /\ sessChannel = [c \in Chats |-> "telegram"]
    /\ sessBus = [c \in Chats |-> FALSE]
    /\ script = [c \in Chats |-> IF c = "1" THEN "once" ELSE "any"]
    /\ evLeft = [c \in Chats |-> IF c = "1" THEN 0 ELSE MaxOverlapEvents]

SpecOverlap == OverlapInit /\ [][LoopNext]_vars

\* The Session of one telegram chat runs (its provider asks for a tool call
\* and then answers) while the stream consumers of two channels, telegram
\* and another one, read the stream queue
ConsumersInit ==
    /\ BusIdle
    /\ AggIdle
    /\ SpawnIdle
    /\ NewSession([c \in Chats |-> IF c = "1" THEN "idle" ELSE "off"])
    /\ sessChannel = [c \in Chats |-> "telegram"]
    /\ sessBus = [c \in Chats |-> TRUE]
    /\ script = [c \in Chats |-> "once"]
    /\ evLeft = [c \in Chats |-> 0]

ConsumersNext ==
    \/ \E c \in Chats : SessionStep(c)
    \/ StreamConsumer
    \/ OtherStreamConsumer("cli")

SpecConsumers == ConsumersInit /\ [][ConsumersNext]_vars

SpecTwoChats == TwoChatInit /\ [][TwoChatNext]_vars

\* The goroutine of each Session keeps running
FairSpecLoop ==
    /\ LoopInit
    /\ [][LoopNext]_vars
    /\ \A c \in Chats : WF_vars(SessionStep(c))

\* Calls of ProcessMessage are made on one Session, with or without a system
\* prompt, two one after the other as call "1" and one as call "2" that may
\* overlap them, and the history is cleared at any moment; the provider
\* closes every stream without an event, so each call appends its user
\* message and one assistant message
ClearInit ==
    /\ BusIdle
    /\ AggIdle
    /\ SpawnIdle
    /\ NewSessionWith([c \in Chats |-> "idle"], [c \in Chats |-> "1"],
                      [c \in Chats |-> IF c = "1" THEN 2 ELSE 1])
    /\ \E p \in {<<>>, systemPrompt} : prompt = [c \in Chats |-> p]
    /\ sessChannel = [c \in Chats |-> "telegram"]
    /\ sessBus = [c \in Chats |-> TRUE]
    /\ script = [c \in Chats |-> "any"]
    /\ evLeft = [c \in Chats |-> 0]

ClearNext ==
    \/ \E c \in Chats : ProcessMessage(c)
    \/ \E c \in Chats : LoopTop(c)
    \/ \E c \in Chats : SendStream(c)
    \/ \E c \in Chats : StreamClosed(c)
    \/ \E c \in Chats : Finish(c)
    \/ Clear("1")

SpecClear == ClearInit /\ [][ClearNext]_vars

\* The events the provider sends in the scenario of an abandoned call
MaxAbandonEvents == 2

\* A message of the user arrives for chat "1" and its Session processes it;
\* the ctx of the call, or the root ctx it shares with the channel, may be
\* cancelled while the call runs
AbandonInit ==
    /\ BusIdle
    /\ NewTelegramChannel
    /\ NewBaseChannel(<<>>)
    /\ aggScenario = "none"
    /\ aggBudget = 1
    /\ SpawnIdle
    /\ NewSession([c \in Chats |-> IF c = "1" THEN "idle" ELSE "off"])
    /\ sessChannel = [c \in Chats |-> "telegram"]
    /\ sessBus = [c \in Chats |-> TRUE]
    /\ script = [c \in Chats |-> "any"]
    /\ evLeft = [c \in Chats |-> IF c = "1" THEN MaxAbandonEvents ELSE 0]

AbandonNext ==
    \/ sessPc["1"] = "idle" /\ HandleInbound("1")
    \/ \E c \in Chats : SessionStep(c)
    \/ \E c \in Chats : SendStreamFails(c)
    \/ \E c \in Chats : CancelSession(c)
    \/ \E c \in Chats : LoopCancelled(c)
    \/ CancelRoot
    \/ StreamConsumer
    \/ ConsumerReturns

\* The same call while the channel keeps running: the ctx of the call may be
\* cancelled, the root ctx is not
DrainNext ==
    \/ sessPc["1"] = "idle" /\ HandleInbound("1")
    \/ \E c \in Chats : SessionStep(c)
    \/ \E c \in Chats : SendStreamFails(c)
    \/ \E c \in Chats : CancelSession(c)
    \/ \E c \in Chats : LoopCancelled(c)
    \/ StreamConsumer

\* The consumer keeps draining the stream queue, every stream the provider
\* opened closes, every tool execution returns and the Session keeps
\* running; the provider has a bounded number of events to send, so that it
\* ends an iteration without tool calls
FairSpecDrain ==
    /\ AbandonInit
    /\ [][DrainNext]_vars
    /\ \A c \in Chats : WF_vars(SessionStep(c))
    /\ \A c \in Chats : WF_vars(LoopCancelled(c))
    /\ WF_vars(StreamConsumer)

\* The room left in the stream channel in the scenario of the full queue
MaxFreeSlots == 5

\* An event another Session published earlier
QueuedEvent ==
    [Event("text-delta", "2") EXCEPT !.Delta = "main", !.Content = <<"a">>, !.Timestamp = 1]

\* Nothing consumes the stream channel, which earlier calls have filled up to
\* MaxFreeSlots places; a message arrives for the Session of chat "1", and
\* the ctx of the call may be cancelled
FullQueueInit ==
    /\ BusHolding([i \in 1..(ChanCap - MaxFreeSlots) |-> QueuedEvent])
    /\ busKind = "stream"
    /\ pubBudget = [p \in Publishers |-> 0]
    /\ conBudget = [c \in Consumers |-> 0]
    /\ AggIdle
    /\ SpawnIdle
    /\ NewSession([c \in Chats |-> IF c = "1" THEN "idle" ELSE "off"])
    /\ sessChannel = [c \in Chats |-> "telegram"]
    /\ sessBus = [c \in Chats |-> TRUE]
    /\ script = [c \in Chats |-> "any"]
    /\ evLeft = [c \in Chats |-> IF c = "1" THEN MaxAbandonEvents ELSE 0]

FullQueueNext ==
    \/ \E c \in Chats : SessionStep(c)
    \/ \E c \in Chats : SendStreamFails(c)
    \/ \E c \in Chats : CancelSession(c)
    \/ \E c \in Chats : LoopCancelled(c)

\* The goroutine of the Session keeps running
FairSpecFullQueue ==
    /\ FullQueueInit
    /\ [][FullQueueNext]_vars
    /\ \A c \in Chats : WF_vars(SessionStep(c))
    /\ \A c \in Chats : WF_vars(LoopCancelled(c))

\* The goroutines keep running: a Session that can take a step takes one, the
\* consumer handles a message it can receive and returns when its ctx is Done
FairSpecAbandon ==
    /\ AbandonInit
    /\ [][AbandonNext]_vars
    /\ \A c \in Chats : WF_vars(SessionStep(c))
    /\ \A c \in Chats : WF_vars(SendStreamFails(c))
    /\ \A c \in Chats : WF_vars(LoopCancelled(c))
    /\ WF_vars(StreamConsumer)
    /\ WF_vars(ConsumerReturns)

\* The tasks a call of Execute can be given: with and without a label
SpawnTaskLists ==
    UNION {[1..k -> {[Task |-> <<"t">>, Label |-> l] : l \in {"", "x"}}] : k \in 0..MaxTasks}

\* One call of SpawnTool.Execute; the provider asks for tools in the first
\* unit only
SpawnInit ==
    /\ BusIdle
    /\ AggIdle
    /\ SessIdle
    /\ NewSpawnTool("idle")
    /\ MessageIdle
    /\ spawnTasks \in SpawnTaskLists
    /\ unitRounds = [n \in 1..MaxTasks |-> IF n = 1 THEN MaxToolRounds ELSE 0]
    /\ unitScript = [n \in 1..MaxTasks |-> "any"]

SpawnNext ==
    \/ \E hasManager \in BOOLEAN : SpawnExecute(hasManager)
    \/ Launch
    \/ \E n \in 1..MaxTasks, ok \in BOOLEAN, events \in Responses : UnitIterate(n, ok, events)
    \/ \E n \in 1..MaxTasks :
        \E res \in [1..Len(units[n].toolCalls) -> ToolResults] : UnitExecTools(n, res)
    \/ \E n \in 1..MaxTasks : UnitStore(n)
    \/ \E n \in 1..MaxTasks : UnitDone(n)
    \/ WaitReturn

SpecSpawn == SpawnInit /\ [][SpawnNext]_vars

\* The steps of the goroutine of task n
UnitStep(n) ==
    \/ \E ok \in BOOLEAN, events \in Responses : UnitIterate(n, ok, events)
    \/ \E res \in [1..Len(units[n].toolCalls) -> ToolResults] : UnitExecTools(n, res)
    \/ UnitStore(n)
    \/ UnitDone(n)

\* One call of Execute with one task whose provider asks for a tool in every
\* answer, as often as it is called
SpawnCapInit ==
    /\ BusIdle
    /\ AggIdle
    /\ SessIdle
    /\ NewSpawnTool("idle")
    /\ MessageIdle
    /\ spawnTasks = <<[Task |-> <<"t">>, Label |-> ""]>>
    /\ unitRounds = [n \in 1..MaxTasks |-> maxIterations + 1]
    /\ unitScript = [n \in 1..MaxTasks |-> "tools"]

\* Every stream closes, every tool execution returns, and the goroutines
\* and Execute itself keep running
FairSpecSpawnCap ==
    /\ SpawnCapInit
    /\ [][SpawnNext]_vars
    /\ \A n \in 1..MaxTasks : WF_vars(UnitStep(n))
    /\ WF_vars(\E hasManager \in BOOLEAN : SpawnExecute(hasManager))
    /\ WF_vars(Launch)
    /\ WF_vars(WaitReturn)

\* One call of Execute with two tasks: the provider of the first asks for a
\* tool in every answer unless the call fails, that of the second always
\* fails ("flaky": a call fails or is answered with a tool call)
SpawnFlakyInit ==
    /\ BusIdle
    /\ AggIdle
    /\ SessIdle
    /\ NewSpawnTool("idle")
    /\ MessageIdle
    /\ spawnTasks = <<[Task |-> <<"t">>, Label |-> ""], [Task |-> <<"u">>, Label |-> ""]>>
    /\ unitRounds = [n \in 1..MaxTasks |-> IF n = 1 THEN maxIterations + 1 ELSE 0]
    /\ unitScript = [n \in 1..MaxTasks |-> "flaky"]

SpecSpawnFlaky == SpawnFlakyInit /\ [][SpawnNext]_vars

\* One call of Execute whose ctx may be cancelled while the units run; the
\* provider may ask every unit for tools
SpawnCancelInit ==
    /\ BusIdle
    /\ AggIdle
    /\ SessIdle
    /\ NewSpawnTool("idle")
    /\ MessageIdle
    /\ spawnTasks \in SpawnTaskLists
    /\ unitRounds = [n \in 1..MaxTasks |-> MaxToolRounds]
    /\ unitScript = [n \in 1..MaxTasks |-> "any"]

SpawnCancelNext ==
    \/ SpawnNext
    \/ CancelScope

FairSpecSpawnCancel ==
    /\ SpawnCancelInit
    /\ [][SpawnCancelNext]_vars
    /\ \A n \in 1..MaxTasks : WF_vars(UnitStep(n))
    /\ WF_vars(\E hasManager \in BOOLEAN : SpawnExecute(hasManager))
    /\ WF_vars(Launch)
    /\ WF_vars(WaitReturn)

----------------------------------------------------------------------------
(* Properties of the bus *)

\* The messages of channel k that consume calls have returned (all consumers)
Taken(k) ==
    {ci \in UNION {{<<c, i>> : i \in 1..Len(received[c])} : c \in Consumers} :
        received[ci[1]][ci[2]][1] = k}

\* Publish calls on channel k that have begun
Begun(k) ==
    Len(sent[k]) + Cardinality({p \in Publishers : pubPc[p] = "sending" /\ pubKind[p] = k})

\* A publisher is blocked in its send: its channel's buffer is full
Blocked(p) == pubPc[p] = "sending" /\ Len(Chan(pubKind[p])) = ChanCap

\* C2: a channel buffers at most ChanCap messages; the buffer is exactly the
\* completed publishes that no consume has taken, in publish order (nothing is
\* discarded, nothing fails); hence a publish completes beyond ChanCap only
\* after a consume; and with no consume so far, once every publish call in
\* progress is blocked, N calls have buffered exactly min(N, ChanCap) messages.
C2_BackpressureNoLoss ==
    \A k \in Kinds :
        /\ Len(Chan(k)) <= ChanCap
        /\ \A p \in Publishers : pubPc[p] # "panicked"
        /\ Len(sent[k]) = Len(Chan(k)) + Cardinality(Taken(k))
        /\ Chan(k) = SubSeq(sent[k], Cardinality(Taken(k)) + 1, Len(sent[k]))
        /\ Len(sent[k]) <= ChanCap + Cardinality(Taken(k))
        /\ (/\ Taken(k) = {}
            /\ \A p \in Publishers : (pubPc[p] = "sending" /\ pubKind[p] = k) => Blocked(p))
           => Len(Chan(k)) = Min(Begun(k), ChanCap)

\* C2 witness: the publish after ChanCap publishes is blocked, nothing consumed yet
C2_Witness ==
    \E p \in Publishers :
        /\ Blocked(p)
        /\ pubCalls[p] = ChanCap + 1
        /\ \A c \in Consumers : received[c] = <<>>

\* C3: every message whose publish completed is either still buffered or was
\* returned by exactly one consume call, never both and never twice; nothing
\* is returned that was not published; and what one consumer receives from
\* one publisher arrives in that publisher's publish order.
C3_ExactlyOnceFifo ==
    /\ \A c1, c2 \in Consumers :
        \A i \in 1..Len(received[c1]), j \in 1..Len(received[c2]) :
            received[c1][i] = received[c2][j] => (c1 = c2 /\ i = j)
    /\ \A k \in Kinds :
        LET got == {received[c][i][2] : <<c, i>> \in Taken(k)}
        IN  /\ Range(sent[k]) = Range(Chan(k)) \cup got
            /\ Range(Chan(k)) \cap got = {}
            /\ Len(sent[k]) = Len(Chan(k)) + Cardinality(got)
    /\ \A c \in Consumers :
        \A i, j \in 1..Len(received[c]) :
            (/\ i < j
             /\ received[c][i][1] = received[c][j][1]
             /\ received[c][i][2].Content[1] = received[c][j][2].Content[1])
            => received[c][i][2].Content[2] < received[c][j][2].Content[2]

\* C3 witness: one consumer got two messages of one publisher while the other
\* consumer got a message too
C3_Witness ==
    \E c1, c2 \in Consumers :
        /\ c1 # c2
        /\ Len(received[c1]) = 2
        /\ received[c1][1][2].Content[1] = received[c1][2][2].Content[1]
        /\ Len(received[c2]) >= 1

\* C4: a consume call that returns while its context is cancelled and its
\* channel is empty returns (zero value, false), and a consume call whose
\* context is cancelled does not stay in its select.
C4_CancelUnblocks ==
    /\ [][\A c \in Consumers :
            (/\ conPc[c] = "waiting"
             /\ cancelled[c]
             /\ Len(Chan(conKind[c])) = 0
             /\ conPc'[c] = "returned")
            => conRet'[c] = [msg |-> ZeroMessage, ok |-> FALSE]]_vars
    /\ \A c \in Consumers :
        (conPc[c] = "waiting" /\ cancelled[c]) ~> (conPc[c] = "returned")

\* C4 witness: a consume call returned (zero, false) and nothing was ever published
C4_Witness ==
    \E c \in Consumers :
        /\ conPc[c] = "returned"
        /\ cancelled[c]
        /\ conRet[c] = [msg |-> ZeroMessage, ok |-> FALSE]
        /\ \A p \in Publishers : pubCalls[p] = 0

----------------------------------------------------------------------------
(* Properties of the allow-list *)

\* The sender ids of the messages published on the inbound channel
PublishedSenders == [i \in DOMAIN sent["inbound"] |-> sent["inbound"][i].SenderID]

\* The part of a string before its first "|" (all of it without one), and the
\* part after it
IdPartOf(str) == IF Index(str, "|") >= 0 THEN SubSeq(str, 1, Index(str, "|")) ELSE str
UserPartOf(str) ==
    IF Index(str, "|") >= 0 THEN SubSeq(str, Index(str, "|") + 2, Len(str)) ELSE <<>>

\* A part of a sender id matches an entry: it is not empty and it is the
\* entry, the entry without its leading "@", or the id part or the username
\* part of the latter
PartMatches(part, entry) ==
    /\ part # <<>>
    /\ part \in {entry, TrimPrefix(entry, "@"), IdPartOf(TrimPrefix(entry, "@")),
                 UserPartOf(TrimPrefix(entry, "@"))}

SenderMatches(senderID) ==
    \E i \in DOMAIN allowList :
        \/ PartMatches(IdPartOf(senderID), allowList[i])
        \/ PartMatches(UserPartOf(senderID), allowList[i])

\* C22: with an empty allow-list HandleMessage publishes an inbound message
\* for every sender; with a non-empty one, no message is published for a
\* sender whose id part and username part match no entry.
C22_OnlyAllowedPublished ==
    /\ allowList = <<>> => PublishedSenders = senders
    /\ \A j \in DOMAIN PublishedSenders :
          \E i \in DOMAIN senders : senders[i] = PublishedSenders[j]
    /\ allowList # <<>> =>
          \A j \in DOMAIN PublishedSenders : SenderMatches(PublishedSenders[j])

\* A sender that matches no entry of a non-empty list was handled and nothing
\* was published
C22_Witness ==
    /\ Len(allowList) = 2
    /\ senders = <<<<"2", "|", "a">>>>
    /\ ~SenderMatches(senders[1])
    /\ inbound = <<>>

----------------------------------------------------------------------------
(* Properties of the aggregator *)

\* The events of the given type in a log, in handling order
OfType(log, type) == SelectSeq(log, LAMBDA m : m.Type = type)

\* The concatenation of the Content of the events of a log
RECURSIVE ConcatContent(_)
ConcatContent(log) ==
    IF log = <<>> THEN <<>> ELSE Head(log).Content \o ConcatContent(Tail(log))

\* A run of text-delta events, with or without a text-start handled first
DeltaRun(log) ==
    /\ OfType(log, "text-delta") # <<>>
    /\ \A i \in 1..Len(log) :
        \/ log[i].Type = "text-delta"
        \/ i = 1 /\ log[i].Type = "text-start"

\* C1: when finish is handled after a run of text-delta events (with or
\* without a text-start first), the final text is the concatenation of the
\* deltas' contents in the order they were handled.
C1_FinalTextIsConcatenation ==
    \A c \in Chats :
        (finalOf[c].done /\ finalOf[c].type = "finish" /\ DeltaRun(finalOf[c].log))
            => finalOf[c].text = ConcatContent(OfType(finalOf[c].log, "text-delta"))

\* The tool blocks and the "more" lines of a snapshot head
BlocksOf(head) == SelectSeq(head, LAMBDA piece : piece.kind = "tool")
MoreOf(head) == SelectSeq(head, LAMBDA piece : piece.kind = "more")

\* The last min(3, n) elements of a sequence
LastThree(seq) == SubSeq(seq, Len(seq) - Min(3, Len(seq)) + 1, Len(seq))

\* C7: after n tool-call events the snapshot has at most 3 tool blocks, those
\* of the 3 most recently handled tool calls in the order they were handled,
\* and an "N more" line with N = n - 3 exactly when n >= 4.
C7_ThreeMostRecentTools ==
    \A c \in Chats :
        streamStates[c] # NoState =>
            LET calls == OfType(aggLog[c], "tool-call")
                head == DisplayHead(streamStates[c])
                last == LastThree(calls)
            IN  /\ Len(BlocksOf(head)) <= 3
                /\ Len(BlocksOf(head)) = Len(last)
                /\ \A i \in 1..Len(last) : BlocksOf(head)[i].name = last[i].ToolName
                /\ MoreOf(head) = IF Len(calls) >= 4
                                  THEN <<[kind |-> "more", n |-> Len(calls) - 3]>>
                                  ELSE <<>>

----------------------------------------------------------------------------
(* Properties of the Session and the stream consumer *)

\* s is the end of t
IsSuffix(s, t) == Len(s) <= Len(t) /\ SubSeq(t, Len(t) - Len(s) + 1, Len(t)) = s

\* C5: the stream events a Session publishes for a chat are handled by the
\* stream consumer, and applied to the chat's aggregator, in the order they
\* were published, whatever the interleaving with the events of other chats.
C5_PerChatOrder ==
    \A c \in Chats :
        /\ IsPrefix(handled[c], published[c])
        /\ streamStates[c] # NoState => IsSuffix(aggLog[c], handled[c])

\* Several events of each chat were handled, a tool call among them, and
\* events of the two chats alternate in the queue
C5_Witness ==
    /\ \E i, j, k \in 1..Len(stream) :
        /\ i < j /\ j < k
        /\ stream[i].ChatID = "1"
        /\ stream[j].ChatID = "2"
        /\ stream[k].ChatID = "1"
    /\ \A c \in Chats : Len(handled[c]) >= 3
    /\ \E c \in Chats : Len(OfType(handled[c], "tool-call")) > 0

\* C6: with a provider that answers every iteration with the finish reason
\* tool_calls and a tool call, processLoop does not run forever: the run of
\* the Session ends, with an error.
C6_LoopTerminates ==
    (script["1"] = "tools") => <>(sessPc["1"] = "done" /\ sessErr["1"] # "")

\* The assistant messages of the history of a Session, one per iteration
AssistantMessages(c) == SelectSeq(messages[c], LAMBDA m : m.Role = "assistant")

\* A finished run of one or more iterations that ended with tool calls and a
\* last one without, all of whose events were handled
ToolRunFinished(c) ==
    LET assist == AssistantMessages(c)
    IN  /\ sessPc[c] = "done" /\ sessErr[c] = ""
        /\ handled[c] = published[c]
        /\ Len(assist) >= 2
        /\ \A i \in 1..(Len(assist) - 1) : assist[i].ToolCalls # <<>>
        /\ assist[Len(assist)].ToolCalls = <<>>

\* C8: after a run in which one or more iterations end with tool calls and
\* the last iteration streams the text T with no tool call, the final text
\* computed at the finish event is exactly T, with no text of an earlier
\* iteration and no tool block, while the snapshot still shows the tool calls.
C8_FinalTextIsLastIteration ==
    \A c \in Chats :
        ToolRunFinished(c) =>
            /\ finalOf[c].done /\ finalOf[c].type = "finish"
            /\ finalOf[c].text = AssistantMessages(c)[Len(AssistantMessages(c))].Content
            /\ BlocksOf(finalOf[c].head) # <<>>

\* A run whose first iteration streamed text before its tool call and whose
\* last iteration streamed another text
C8_Witness ==
    /\ ToolRunFinished("1")
    /\ AssistantMessages("1")[1].Content = <<"a">>
    /\ finalOf["1"].text = <<"b">>

----------------------------------------------------------------------------
(* Properties of spawn *)

\* The tasks whose unit had a tool execution return an error
ToolFailedUnits == {n \in 1..Len(spawnTasks) : units[n].toolFailed}

\* The results marked as errors
ErrorResults == {n \in 1..Len(results) : results[n].IsError}

\* C9: when exactly one task's tool execution returns an error and all the
\* other tasks succeed, Execute returns one result per task of which exactly
\* one, that of the task whose tool failed, has isError = true.
C9_OneErrorResult ==
    (/\ spawnPc = "returned" /\ ~spawnRet.IsError
     /\ Cardinality(ToolFailedUnits) = 1
     /\ \A n \in 1..Len(spawnTasks) : ~units[n].providerFailed)
        => /\ Len(results) = Len(spawnTasks)
           /\ ErrorResults = ToolFailedUnits

\* C10: a call of Execute with a non-empty task list returns only after
\* every launched unit has completed, and its report then holds one result
\* per task: no unit is still running and no result slot is unwritten.
C10_BarrierJoin ==
    (spawnPc = "returned" /\ Len(spawnTasks) > 0 /\ ~spawnRet.IsError)
        => /\ \A n \in 1..Len(spawnTasks) : units[n].pc = "exit" /\ results[n].written
           /\ Len(results) = Len(spawnTasks)
           /\ Len(spawnRet.Content) = Len(spawnTasks)
           /\ \A n \in 1..Len(spawnTasks) :
                spawnRet.Content[n] = ReportEntry([units[n].result EXCEPT !.written = TRUE])

\* Execute returned for the largest task list, after units that ran tools
\* and units that did not
C10_Witness ==
    /\ spawnPc = "returned" /\ ~spawnRet.IsError
    /\ Len(spawnTasks) = MaxTasks
    /\ \E n \in 1..MaxTasks : units[n].rounds > 0
    /\ \E n \in 1..MaxTasks : units[n].providerFailed
    /\ \A n \in 1..MaxTasks : results[n].written

\* C11: a provider error or a tool error in one unit never cancels the
\* shared subCtx and never stops or alters a sibling: a step of one unit
\* changes neither the locals nor the result slot of any other unit nor
\* subCtx, which is cancelled only when Execute returns; a unit that has
\* not finished can always take its next step; and what Execute reports
\* for a unit is what that unit's own run produced.
C11_SiblingsUntouched ==
    /\ [][\A n \in 1..MaxTasks :
            units'[n] # units[n] =>
                /\ \A m \in (1..MaxTasks) \ {n} :
                        /\ units'[m] = units[m]
                        /\ m \in DOMAIN results => results'[m] = results[m]
                /\ subCtxDone' = subCtxDone]_vars
    /\ [](subCtxDone => spawnPc = "returned")
    /\ [](\A m \in 1..MaxTasks :
            units[m].pc \in {"loop", "tools", "store", "defer"} => ENABLED UnitStep(m))
    /\ []((spawnPc = "returned" /\ ~spawnRet.IsError) =>
            \A m \in 1..Len(spawnTasks) :
                /\ results[m] = [units[m].result EXCEPT !.written = TRUE]
                /\ results[m].IsError <=> units[m].providerFailed)

\* Execute returned after the first unit had a tool error, or a provider
\* error after its tool round, while the second unit answered "a"
C11_Witness ==
    /\ spawnPc = "returned" /\ ~spawnRet.IsError
    /\ Len(spawnTasks) = 2
    /\ units[1].toolFailed /\ units[1].providerFailed
    /\ ~results[2].IsError /\ results[2].Content = <<"a">> /\ results[2].Iteration = 1

\* C12: a unit opens at most maxIterations (10) streaming model calls and,
\* when every stream closes and every tool execution returns, terminates
\* even if the model asks for tools in every answer; its history starts as
\* exactly [system prompt of a subagent, task].
C12_CappedAndTerminates ==
    /\ [](\A n \in 1..MaxTasks : units[n].calls <= maxIterations)
    /\ [](\A n \in 1..Len(spawnTasks) :
            units[n].pc # "none" =>
                /\ Len(units[n].messages) >= 2
                /\ SubSeq(units[n].messages, 1, 2) =
                     <<[Role |-> "system", Content |-> subagentPrompt, ToolCalls |-> <<>>,
                        ToolCallID |-> ""],
                       [Role |-> "user", Content |-> spawnTasks[n].Task, ToolCalls |-> <<>>,
                        ToolCallID |-> ""]>>)
    /\ \A n \in 1..MaxTasks : (units[n].pc = "loop") ~> (units[n].pc = "exit")

\* A unit that was asked for tools in every answer stopped after ten calls
C12_Witness ==
    /\ spawnPc = "returned"
    /\ units[1].pc = "exit"
    /\ units[1].calls = maxIterations /\ units[1].rounds = maxIterations
    /\ results[1].Iteration = maxIterations /\ ~results[1].IsError

\* C13: when opening the streaming model call fails, the Session publishes
\* one error event carrying the failure text, appends no message, and goes
\* straight to the end of ProcessMessage: no further model call is made in
\* that invocation (a failed invocation is never again at a model call),
\* ProcessMessage returns the error, and a later ProcessMessage on the same
\* Session can start.
C13_SendStreamFailure ==
    /\ [][\A c \in Chats :
            (sessPc[c] = "send" /\ sessErr[c] = "" /\ sessErr'[c] # "") =>
                /\ Len(published'[c]) = Len(published[c]) + 1
                /\ SubSeq(published'[c], 1, Len(published[c])) = published[c]
                /\ LET e == published'[c][Len(published'[c])]
                   IN  e.Type = "error" /\ e.Content = <<"p">> /\ e.ChatID = sessOf[c]
                /\ messages' = messages
                /\ sessPc'[c] = "finish"]_vars
    /\ [](\A c \in Chats : sessErr[c] = "provider" => sessPc[c] \in {"finish", "done"})
    /\ [][\A c \in Chats :
            (sessPc[c] = "finish" /\ sessPc'[c] = "done") =>
                /\ returned'[c] = Append(returned[c], sessErr[c])
                /\ messages' = messages]_vars
    /\ [](\A c \in Chats :
            (sessPc[c] = "done" /\ runsLeft[c] > 0) => ENABLED ProcessMessage(c))

\* The first call failed at its model call and returned the error; the
\* second call on the same Session returned nil after an assistant answer
\* that follows the two user messages
C13_Witness ==
    /\ sessPc["1"] = "done"
    /\ returned["1"] = <<"provider", "">>
    /\ [k \in 1..Len(messages["1"]) |-> messages["1"][k].Role] =
            <<"system", "user", "user", "assistant">>
    /\ messages["1"][4].Content # <<>>

\* The contents of the error results of the tool executions
ErrorContents == {<<"e">>, <<"unknown tool: ", "ls">>, <<"Error executing tool: ", "x">>}

\* The last n messages of a history
LastMessages(msgs, n) == SubSeq(msgs, Len(msgs) - n + 1, Len(msgs))

\* C14: a tool call that names an unknown tool, or whose execution returns
\* an error-flagged result or a Go error, never aborts ProcessMessage: the
\* execution step publishes exactly one event with the id of the call, a
\* tool-error carrying the error content unless the tool succeeded, appends
\* exactly one tool message with that id ("Error: ..." for an error), sets
\* no error of the call and goes on to the next tool call; after the last
\* one every call of the iteration has its tool message, in order, and the
\* loop is ready for its next model call.
C14_ToolErrorsDoNotAbort ==
    /\ [][\A c \in Chats :
            (sessPc[c] = "exec" /\ sessPc'[c] # "exec") =>
                LET tc == toolCalls[c][toolIdx[c]]
                    e == published'[c][Len(published'[c])]
                    m == messages'[sessOf[c]][Len(messages'[sessOf[c]])]
                IN  /\ Len(published'[c]) = Len(published[c]) + 1
                    /\ e.ToolCallID = tc.ID
                    /\ \/ e.Type = "tool-result" /\ e.ToolResult = <<"r">>
                          /\ m.Content = <<"r">>
                       \/ e.Type = "tool-error" /\ e.Error \in ErrorContents
                          /\ m.Content = <<"E", "r", "r", "o", "r", ":", " ">> \o e.Error
                    /\ Len(messages'[sessOf[c]]) = Len(messages[sessOf[c]]) + 1
                    /\ m.Role = "tool" /\ m.ToolCallID = tc.ID
                    /\ sessErr'[c] = ""
                    /\ sessPc'[c] = IF toolIdx[c] < Len(toolCalls[c]) THEN "tools" ELSE "loop"
                    /\ toolIdx'[c] = IF toolIdx[c] < Len(toolCalls[c]) THEN toolIdx[c] + 1
                                     ELSE toolIdx[c]]_vars
    /\ [](\A c \in Chats :
            (sessPc[c] = "loop" /\ iteration[c] > 0) =>
                /\ Len(messages[sessOf[c]]) >= Len(toolCalls[c])
                /\ LET last == LastMessages(messages[sessOf[c]], Len(toolCalls[c]))
                   IN  \A k \in 1..Len(toolCalls[c]) :
                           last[k].Role = "tool" /\ last[k].ToolCallID = toolCalls[c][k].ID
                /\ ENABLED LoopTop(c))

\* An iteration with two tool calls, the first of an unknown tool and the
\* second failing with a Go error, was followed by the next model call
C14_Witness ==
    /\ sessPc["1"] = "send" /\ iteration["1"] = 2
    /\ Len(toolCalls["1"]) = 2
    /\ \E i \in 1..Len(published["1"]) :
            /\ published["1"][i].Type = "tool-error"
            /\ published["1"][i].Error = <<"unknown tool: ", "ls">>
            /\ \E j \in (i + 1)..Len(published["1"]) :
                    /\ published["1"][j].Type = "tool-error"
                    /\ published["1"][j].Error = <<"Error executing tool: ", "x">>
    /\ sessErr["1"] = ""

\* The events handled for a chat since its last finish or error event
SinceTerminal(h) ==
    LET ends == {i \in 1..Len(h) : Terminal(h[i])}
        last == IF ends = {} THEN 0 ELSE CHOOSE i \in ends : \A j \in ends : j <= i
    IN  SubSeq(h, last + 1, Len(h))

\* C15: the step that handles a finish or error event of a chat leaves no
\* entry for the chat in the map, and an entry that exists later holds only
\* what the events handled since then produced from a new state: one part
\* per text-start and tool-call event, the ids of those tool calls, no more
\* text than their deltas carry, and a message id only if one of them
\* rendered.
C15_FreshAfterTerminal ==
    /\ [][\A c \in Chats :
            (handled'[c] # handled[c] /\ Terminal(handled'[c][Len(handled'[c])]))
                => streamStates'[c] = NoState]_vars
    /\ [](\A c \in Chats :
            streamStates[c] # NoState =>
                LET s == streamStates[c]
                    log == SinceTerminal(handled[c])
                    calls == SelectSeq(log, LAMBDA m : m.Type = "tool-call")
                    deltas == SelectSeq(log, LAMBDA m : m.Type = "text-delta")
                IN  /\ Len(s.heap) =
                            Len(SelectSeq(log, LAMBDA m : m.Type \in {"text-start", "tool-call"}))
                    /\ s.toolCallList = [k \in 1..Len(calls) |-> calls[k].ToolCallID]
                    /\ \A k \in 1..Len(s.heap) : Len(s.heap[k].Text) <= Len(deltas)
                    /\ s.messageID # 0 => \E k \in 1..Len(log) : Rendering(log[k])
                    /\ s.currentText # 0 => \E k \in 1..Len(log) : log[k].Type = "text-start")

\* After a run of the chat that had a text, a tool call and a live message
\* was ended by finish, a text-start event was applied to a new state
C15_Witness ==
    /\ finalOf["1"].done /\ finalOf["1"].type = "finish"
    /\ finalOf["1"].text # <<>> /\ finalOf["1"].messageID # 0
    /\ Len(finalOf["1"].log) = 3
    /\ streamStates["1"] # NoState
    /\ Len(streamStates["1"].heap) = 1
    /\ streamStates["1"].heap[1].Text = <<>>
    /\ streamStates["1"].messageID = 0
    /\ streamStates["1"].toolCallList = <<>>

\* C16: when a finish event is handled for a chat whose final text is not
\* empty, and the calls to Telegram succeed, that final text reaches the
\* chat, as an edit of the live message or as a new message, whether or not
\* a live render happened before.
C16_FinalTextRendered ==
    \A c \in Chats :
        (/\ finalOf[c].done /\ finalOf[c].type = "finish"
         /\ finalOf[c].text # <<>>
         /\ finalOf[c].api = <<TRUE, TRUE>>)
            => finalOf[c].final.rendered /\ finalOf[c].final.shown = finalOf[c].text

\* C17: for one chat, two consecutive live renders (renders other than the
\* final one) are never closer in time than the throttle interval of 500 ms,
\* for any sequence of text-delta and tool events.
C17_RendersThrottled ==
    \A c \in Chats : streamStates[c] # NoState => ~streamStates[c].burst

\* C18: calls of ProcessMessage on one Session are serialized for their
\* whole duration: in the history of a Session the messages appended by one
\* call are never interleaved with those of another call.
C18_CallsSerialized ==
    \A s \in Chats :
        \A i, j, k \in 1..Len(authors[s]) :
            (i < j /\ j < k /\ authors[s][i] = authors[s][k]) => authors[s][j] = authors[s][i]

\* C19: every read and every write of the state of an aggregator (the part
\* map, the State of a tool part, the current-text pointer, the tool-call
\* list and the timestamps) happens while its lock is held: no field is
\* ever accessed without s.mu, neither by a handler of a live event nor by
\* the final render.
C19_AccessesUnderLock ==
    \A c \in Chats :
        /\ streamStates[c] # NoState => streamStates[c].unlocked = {}
        /\ finalOf[c].final.unlocked = {}

\* The events of a chat that are in the stream queue
Queued(c) == SelectSeq(stream, LAMBDA m : m.ChatID = c)

\* C20: with two or more stream consumers reading the stream queue, no
\* event addressed to the telegram channel is taken by another consumer
\* and lost: every event a telegram Session published is still in the
\* queue or has been handled by the telegram consumer.
C20_NoEventLostToOtherConsumer ==
    \A c \in Chats :
        sessChannel[c] = "telegram" =>
            Len(published[c]) = Len(handled[c]) + Len(Queued(c))


\* C21: a call of Close that runs to its end has closed all three channels,
\* and the second call of Close on a bus panics: it neither returns silently
\* nor changes a channel, and the first call never panics.
C21_CloseTwicePanics ==
    /\ [](closeCalls >= 1 /\ closePc = 0 => \A k \in Kinds : closed[k])
    /\ [](closeCalls >= 2 <=> closePanic)
    /\ [][closeCalls' = 2 => closePanic' /\ closed' = closed]_vars

\* Close was called twice: the first call closed the three channels, the
\* second one panicked
C21_Witness ==
    /\ closeCalls = 2 /\ closePanic
    /\ \A k \in Kinds : closed[k]


\* C23: once the shared scope of a spawn call is cancelled, no unit makes a
\* model call that succeeds and no unit makes another pass over tool calls,
\* every launched unit completes and the call of Execute returns.
C23_CancelStopsUnits ==
    /\ [](\A n \in 1..MaxTasks : ~units[n].lateCall /\ ~units[n].lateTools)
    /\ \A n \in 1..MaxTasks :
          (subCtxDone /\ units[n].pc \notin {"none", "exit"}) ~> (units[n].pc = "exit")
    /\ (subCtxDone /\ spawnPc = "wait") ~> (spawnPc = "returned")


\* C24: when the ctx of a call of ProcessMessage is cancelled, the entry of
\* the chat in streamStates is eventually removed: from then on the chat is
\* again and again without an entry, so none stays in the map forever.
C24_AbandonedEntryRemoved ==
    \A c \in Chats : [](ctxDone[c] => <>(streamStates[c] = NoState))


\* The system messages of a history
SystemMessages(msgs) == SelectSeq(msgs, LAMBDA m : m.Role = "system")

\* C25: the first event of every call of ProcessMessage is its start event;
\* the call appends the system prompt exactly when one is configured and the
\* history is empty, and then the user message; so, however the calls and
\* Clear interleave, a history holds at most one system message, which is
\* then its first message.
C25_OneSystemMessageFirst ==
    /\ [](\A c \in Chats : \A i \in DOMAIN published[c] :
            (i = 1 \/ published[c][i - 1].Type = "finish") =>
                published[c][i].Type = "start" /\ published[c][i].Iteration = 0)
    /\ [][\A c \in Chats :
            (sessPc[c] \in {"idle", "done"} /\ sessPc'[c] = "loop") =>
                LET old == messages[sessOf[c]]
                    new == messages'[sessOf[c]]
                    user == [Role |-> "user", Content |-> <<"u">>, ToolCalls |-> <<>>,
                             ToolCallID |-> ""]
                    sys == [Role |-> "system", Content |-> prompt[sessOf[c]],
                            ToolCalls |-> <<>>, ToolCallID |-> ""]
                IN  /\ Len(published'[c]) = Len(published[c]) + 1
                    /\ new[Len(new)] = user
                    /\ IF prompt[sessOf[c]] # <<>> /\ old = <<>>
                       THEN new = <<sys, user>>
                       ELSE Len(SystemMessages(new)) <= Len(SystemMessages(old))]_vars
    /\ [](\A session \in Chats :
            /\ Len(SystemMessages(messages[session])) <= 1
            /\ Len(SystemMessages(messages[session])) = 1 =>
                   messages[session][1].Role = "system")

\* With a prompt configured, the history was cleared while a call ran and a
\* later call appended its user message to what the first had appended since
C25_Witness ==
    /\ prompt["1"] = systemPrompt
    /\ messages["1"] # <<>>
    /\ messages["1"][1].Role = "assistant"
    /\ \E i \in DOMAIN messages["1"] : messages["1"][i].Role = "user"


\* The events of executeToolCalls
ToolEventTypes == {"tool-call", "tool-result", "tool-error"}

\* The position of the last start event of an iteration among the events
\* published by a call (0: none)
LastStart(evs) ==
    LET at == {i \in DOMAIN evs : evs[i].Type = "start" /\ evs[i].Iteration > 0}
    IN  IF at = {} THEN 0 ELSE CHOOSE i \in at : \A j \in at : j <= i

\* C26: while the tool calls of an iteration are executed, and until the
\* start event of the next iteration, the events of the iteration end with,
\* for each call handled so far in accumulated order, one tool-call event
\* followed at once by one tool-result or tool-error event of the same id
\* (and the tool-call event of the call being executed); the iteration has
\* published no other tool event; the history ends with the tool messages of
\* the finished calls, in order; and a start event of a later iteration is
\* published only when every call of the iteration is finished.
C26_ToolStepsInOrder ==
    /\ [](\A c \in Chats :
            (sessPc[c] \in {"tools", "exec"} \/ (sessPc[c] = "loop" /\ iteration[c] > 0)) =>
                LET calls == toolCalls[c]
                    done == IF sessPc[c] = "loop" THEN Len(calls) ELSE toolIdx[c] - 1
                    n == 2 * done + (IF sessPc[c] = "exec" THEN 1 ELSE 0)
                    evs == published[c]
                    tail == SubSeq(evs, Len(evs) - n + 1, Len(evs))
                    msgs == messages[sessOf[c]]
                IN  /\ Len(evs) > n
                    /\ \A k \in 1..done :
                          /\ tail[2 * k - 1].Type = "tool-call"
                          /\ tail[2 * k - 1].ToolCallID = calls[k].ID
                          /\ tail[2 * k - 1].ToolName = calls[k].Name
                          /\ tail[2 * k].Type \in {"tool-result", "tool-error"}
                          /\ tail[2 * k].ToolCallID = calls[k].ID
                    /\ sessPc[c] = "exec" =>
                          /\ tail[n].Type = "tool-call"
                          /\ tail[n].ToolCallID = calls[toolIdx[c]].ID
                    /\ LastStart(evs) > 0 /\ LastStart(evs) < Len(evs) - n + 1
                    /\ \A i \in (LastStart(evs) + 1)..(Len(evs) - n) :
                          evs[i].Type \notin ToolEventTypes
                    /\ Len(msgs) >= done
                    /\ \A k \in 1..done :
                          /\ msgs[Len(msgs) - done + k].Role = "tool"
                          /\ msgs[Len(msgs) - done + k].ToolCallID = calls[k].ID
                    /\ Len(msgs) > done =>
                          /\ msgs[Len(msgs) - done].Role = "assistant"
                          /\ msgs[Len(msgs) - done].ToolCalls = calls)
    /\ [][\A c \in Chats :
            (/\ Len(published'[c]) > Len(published[c])
             /\ published'[c][Len(published'[c])].Type = "start"
             /\ published'[c][Len(published'[c])].Iteration > 1) =>
                (sessPc[c] = "loop" /\ iteration[c] > 0)]_vars

\* Two tool calls of different ids were executed in one iteration, the second
\* before the first in the stream of the provider, and the next iteration
\* has begun
C26_Witness ==
    /\ sessPc["1"] = "send" /\ iteration["1"] = 2
    /\ Len(toolCalls["1"]) = 2
    /\ toolCalls["1"][1].ID = "t2" /\ toolCalls["1"][2].ID = "t1"
    /\ Len(SelectSeq(published["1"], LAMBDA e : e.Type \in ToolEventTypes)) = 4


\* The text of the text-delta events published since the last text-start
\* event, in the order of the events
RECURSIVE DeltaText(_)
DeltaText(evs) ==
    IF evs = <<>> \/ evs[Len(evs)].Type = "text-start" THEN <<>>
    ELSE DeltaText(SubSeq(evs, 1, Len(evs) - 1))
         \o (IF evs[Len(evs)].Type = "text-delta" THEN evs[Len(evs)].Content ELSE <<>>)

\* C27: while the stream of an iteration is open, the text accumulated so far
\* is that of the text-delta events published since the text-start event, in
\* their order, and no tool event of the iteration has been published; the
\* step that follows the close of the stream appends one assistant message
\* whose content is that text and whose tool calls are those accumulated, and
\* publishes nothing; no other step adds an assistant message.
C27_OneAssistantMessage ==
    /\ [](\A c \in Chats :
            sessPc[c] = "stream" =>
                /\ assistantMsg[c] = DeltaText(published[c])
                /\ \A i \in (LastStart(published[c]) + 1)..Len(published[c]) :
                      published[c][i].Type \notin ToolEventTypes)
    /\ [][\A c \in Chats :
            (sessPc[c] = "stream" /\ sessPc'[c] # "stream") =>
                LET old == messages[sessOf[c]]
                    new == messages'[sessOf[c]]
                    m == new[Len(new)]
                IN  /\ m.Role = "assistant"
                    /\ m.Content = DeltaText(published[c])
                    /\ m.ToolCalls = toolCalls[c]
                    /\ SubSeq(new, 1, Len(new) - 1) =
                          (IF Len(old) < MaxHistory THEN old ELSE Tail(old))
                    /\ published'[c] = published[c]
                    /\ sessPc'[c] \in {"tools", "finish"}]_vars
    /\ [][\A session \in Chats :
            (Len(SelectSeq(messages'[session], LAMBDA m : m.Role = "assistant"))
                > Len(SelectSeq(messages[session], LAMBDA m : m.Role = "assistant"))) =>
                \E c \in Chats : /\ sessOf[c] = session
                                 /\ sessPc[c] = "stream" /\ sessPc'[c] # "stream"]_vars

\* The stream of an iteration delivered the text b, then a, and a tool call,
\* and closed: the assistant message "ba" with the call was appended and the
\* call is about to run
C27_Witness ==
    /\ sessPc["1"] = "tools" /\ iteration["1"] = 1
    /\ LET m == messages["1"][Len(messages["1"])]
       IN  /\ m.Role = "assistant"
           /\ m.Content = <<"b", "a">>
           /\ Len(m.ToolCalls) = 1


\* C28: in the report of a call of Execute, the entry at position n is that
\* of the result the unit launched for task n returned, whatever the order
\* in which the units assigned their results, and its label is the label of
\* task n when it has one and "task-n" (n counted from 1) otherwise.
C28_ReportFollowsTasks ==
    (spawnPc = "returned" /\ ~spawnRet.IsError) =>
        /\ Len(spawnRet.Content) = Len(spawnTasks)
        /\ \A n \in 1..Len(spawnTasks) :
              /\ spawnRet.Content[n].label =
                    (IF spawnTasks[n].Label = "" THEN <<"task-", n>> ELSE spawnTasks[n].Label)
              /\ spawnRet.Content[n].ok = ~units[n].result.IsError
              /\ spawnRet.Content[n].iterations = units[n].result.Iteration
              /\ units[n].result.IsError =>
                    spawnRet.Content[n].content = units[n].result.Content
              /\ units[n].messages[2].Content = spawnTasks[n].Task

\* Two tasks, the first without a label; the unit of the second task
\* assigned its result first and, unlike that of the first, failed
C28_Witness ==
    /\ spawnPc = "returned" /\ ~spawnRet.IsError
    /\ Len(spawnTasks) = 2
    /\ spawnTasks[1].Label = "" /\ spawnTasks[2].Label = "x"
    /\ units[2].rank = 1 /\ units[1].rank = 2
    /\ spawnRet.Content[1].ok /\ ~spawnRet.Content[2].ok


(* Properties of the tool-result and tool-error cases *)

\* The last event the consumer has handled for a chat
LastHandled(c) == handled[c][Len(handled[c])]

\* What the tool-result or tool-error event msg writes into its part
Settled(part, msg) ==
    IF msg.Type = "tool-result"
    THEN [part EXCEPT !.State.status = "completed", !.State.output = msg.ToolResult]
    ELSE [part EXCEPT !.State.status = "error", !.State.error = msg.Error]

\* C29: when a tool-result or tool-error event of a chat is handled, the part
\* map, the tool-call map and list, the current-text pointer and the
\* iteration of the chat's aggregator (the empty one when the chat had none)
\* stay as they were; with a call id that has no tool part every part stays
\* as it was, and with a call id that has one, that part alone changes, in
\* its status ("completed" or "error") and in its output (tool-result) or
\* error (tool-error) only.
C29_ToolResultFrame ==
    [][\A c \in Chats :
         (handled'[c] # handled[c]
            /\ handled'[c][Len(handled'[c])].Type \in {"tool-result", "tool-error"}) =>
         LET msg == handled'[c][Len(handled'[c])]
             before == LoadOrStore(streamStates[c])
             after == streamStates'[c]
             idx == before.toolCalls[msg.ToolCallID]
         IN  /\ after # NoState
             /\ after.parts = before.parts
             /\ after.toolCalls = before.toolCalls
             /\ after.toolCallList = before.toolCallList
             /\ after.currentText = before.currentText
             /\ after.iteration = before.iteration
             /\ Len(after.heap) = Len(before.heap)
             /\ \A k \in 1..Len(before.heap) :
                   after.heap[k] = IF k = idx THEN Settled(before.heap[k], msg)
                                   ELSE before.heap[k]]_vars

\* After a text part and a call t1 that failed, a result arrived for t2,
\* which has no part: t1's part keeps its error and there is no part of t2
C29_Witness ==
    /\ Len(handled["1"]) = MaxFrameEvents
    /\ LastHandled("1").Type = "tool-result"
    /\ LastHandled("1").ToolCallID = "t2"
    /\ streamStates["1"] # NoState
    /\ streamStates["1"].toolCalls["t2"] = 0
    /\ streamStates["1"].parts["t2"] = 0
    /\ streamStates["1"].currentText # 0
    /\ streamStates["1"].toolCalls["t1"] # 0
    /\ streamStates["1"].heap[streamStates["1"].toolCalls["t1"]].State =
          [status |-> "error", input |-> <<"x">>, output |-> <<>>, error |-> <<"e">>]


(* Properties of the step marker *)

\* C30: when the aggregator of a chat has handled the start event of an
\* iteration N > 0, every snapshot GetDisplayContent can render for the chat
\* holds the "step N" marker, N being the iteration of the last such event
\* the aggregator has handled.
C30_StepMarkerShown ==
    \A c \in Chats :
        (streamStates[c] # NoState /\ LastStart(aggLog[c]) # 0) =>
            \A snapshot \in GetDisplayContent(streamStates[c]) :
                \E k \in DOMAIN snapshot :
                    snapshot[k] = [kind |-> "step",
                                   n |-> aggLog[c][LastStart(aggLog[c])].Iteration]


(* Properties of the terminal events of a call *)

\* The positions of the terminal events (finish, error) among events
TerminalAt(evs) == {i \in DOMAIN evs : evs[i].Type \in {"finish", "error"}}

\* The positions of the start events ProcessMessage publishes on entry
CallStartAt(evs) == {i \in DOMAIN evs : evs[i].Type = "start" /\ evs[i].Iteration = 0}

\* The position of the k-th terminal event among events
NthTerminal(evs, k) ==
    CHOOSE i \in TerminalAt(evs) : Cardinality({j \in TerminalAt(evs) : j <= i}) = k

\* C31: every call of ProcessMessage publishes exactly one terminal event,
\* finish when it returns nil and error when its model call failed, and no
\* event after it: a terminal event is the last event published so far or is
\* followed by the start event of the next call.
C31_OneTerminalEvent ==
    \A c \in Chats :
        LET evs == published[c]
        IN  /\ Cardinality(TerminalAt(evs)) <= Cardinality(CallStartAt(evs))
            /\ sessPc[c] = "done" =>
                  Cardinality(TerminalAt(evs)) = Cardinality(CallStartAt(evs))
            /\ \A i \in TerminalAt(evs) :
                  i = Len(evs) \/ (i + 1) \in CallStartAt(evs)
            /\ \A k \in 1..Len(returned[c]) :
                  k <= Cardinality(TerminalAt(evs)) =>
                      evs[NthTerminal(evs, k)].Type =
                          (IF returned[c][k] = "" THEN "finish" ELSE "error")


(* Properties of consuming after Close *)

\* C32: every message a consume call returns with ok = true was published
\* on the queue it was consumed from, also after Close: no consume call
\* returns the zero message with ok = true.
C32_NoPhantomMessage ==
    /\ \A c \in Consumers :
          (conPc[c] = "returned" /\ conRet[c].ok) =>
              /\ conRet[c].msg \in Range(sent[conKind[c]])
              /\ conRet[c].msg # ZeroMessage
    /\ \A c \in Consumers : \A i \in 1..Len(received[c]) :
          received[c][i][2] \in Range(sent[received[c][i][1]])


(* The message tool of a shared registry *)

\* The calls of the message tool each caller makes
MaxMessageCalls == 1

\* The Sessions of chats "1" (telegram) and "2" (cli) and a subagent unit
\* spawned for chat "1" share one tool registry, and each calls the message
\* tool; nothing consumes the outbound queue
MessageInit ==
    /\ BusIdle
    /\ AggIdle
    /\ SessIdle
    /\ SpawnOff
    /\ NewMessageTool([caller \in MsgCallers |-> MaxMessageCalls])

MessageNext ==
    \E caller \in MsgCallers :
        \/ MessageCall(caller)
        \/ SetContextChannel(caller)
        \/ SetContextChatID(caller)
        \/ MessageCheck(caller)
        \/ MessageReadChannel(caller)
        \/ MessagePublish(caller)

SpecMessage == MessageInit /\ [][MessageNext]_vars

\* C33: every outbound message the message tool published for a call of a
\* caller (the content names the caller) is addressed to the channel and
\* the chat that caller works for, be the caller a Session or a subagent.
C33_MessageToOwnChat ==
    \A i \in DOMAIN sent["outbound"] :
        LET msg == sent["outbound"][i]
            chat == ChatOf(msg.Content[2])
        IN  msg.Content[1] = "m" =>
                /\ msg.ChatID = chat
                /\ msg.Channel = ChannelOf(chat)


(* Properties of the texts an aggregator returns *)

\* C34: the final text and the snapshot of an aggregator are functions of
\* the events it has handled: GetFinalText and GetDisplayContent can each
\* return one value only, also when the current text part is empty or unset
\* and two text parts tie for the longest.
C34_TextsDetermined ==
    \A c \in Chats :
        streamStates[c] # NoState =>
            /\ Cardinality(GetFinalText(streamStates[c])) = 1
            /\ Cardinality(GetDisplayContent(streamStates[c])) = 1


(* Properties of the tool-call list *)

\* The ids that have a part in the tool-call map of an aggregator
ToolCallIDs(s) == {id \in PartIDs : s.toolCalls[id] # 0}

\* C35: in every aggregator the tool-call id list holds no id twice and is
\* as long as the tool-call map has entries, so that no tool call is shown
\* twice and the "N more" line counts the tool calls that are not shown.
C35_ToolCallListIsSet ==
    \A c \in Chats :
        streamStates[c] # NoState =>
            LET s == streamStates[c]
                list == s.toolCallList
            IN  /\ \A i, j \in DOMAIN list : list[i] = list[j] => i = j
                /\ Len(list) = Cardinality(ToolCallIDs(s))
                /\ \A i, j \in DOMAIN ToolIDsToShow(s) :
                      ToolIDsToShow(s)[i] = ToolIDsToShow(s)[j] => i = j
                /\ \A k \in DOMAIN DisplayHead(s) :
                      DisplayHead(s)[k].kind = "more" =>
                          DisplayHead(s)[k].n =
                              Cardinality(ToolCallIDs(s)) - Len(ToolIDsToShow(s))


(* Properties of the tool messages of the conversation *)

\* C36: when a call of ProcessMessage has returned, every assistant message
\* of the conversation that carries k >= 1 tool calls is followed at once by
\* exactly k tool messages, with the ids of its calls in their order.
C36_ToolCallsAnswered ==
    \A c \in Chats :
        sessPc[c] = "done" =>
            LET msgs == messages[sessOf[c]]
            IN  \A i \in DOMAIN msgs :
                    (msgs[i].Role = "assistant" /\ Len(msgs[i].ToolCalls) >= 1) =>
                        LET k == Len(msgs[i].ToolCalls)
                        IN  /\ i + k <= Len(msgs)
                            /\ \A j \in 1..k :
                                  /\ msgs[i + j].Role = "tool"
                                  /\ msgs[i + j].ToolCallID = msgs[i].ToolCalls[j].ID
                            /\ i + k < Len(msgs) => msgs[i + k + 1].Role # "tool"


(* Properties of the result of a unit *)

\* C37: a unit whose every model call up to the cap asked for tool calls
\* returns a result that is no error, has an empty content and has the cap
\* as its iteration count; the result of a unit is an error exactly when a
\* SendStream call of the unit failed, and its iteration count is then 0.
C37_CapIsNotAnError ==
    \A n \in 1..MaxTasks :
        units[n].pc \in {"store", "defer", "exit"} =>
            LET r == units[n].result
            IN  /\ r.IsError <=> units[n].providerFailed
                /\ r.IsError => r.Iteration = 0
                /\ (units[n].rounds = maxIterations /\ ~units[n].providerFailed) =>
                      /\ ~r.IsError
                      /\ r.Content = <<>>
                      /\ r.Iteration = maxIterations

\* The first unit was asked for tools in all ten calls, one tool execution
\* failed, and its result is no error; the second unit's SendStream failed
C37_Witness ==
    /\ spawnPc = "returned"
    /\ units[1].rounds = maxIterations /\ units[1].calls = maxIterations
    /\ units[1].toolFailed /\ ~units[1].providerFailed
    /\ results[1].Iteration = maxIterations /\ ~results[1].IsError
    /\ results[1].Content = <<>>
    /\ units[2].providerFailed /\ results[2].IsError /\ results[2].Iteration = 0


(* Properties of a call whose events are consumed *)

\* C38: when the consumer keeps draining the stream queue, every model
\* stream closes, every tool execution returns and the model ends an
\* iteration without tool calls, a call of ProcessMessage returns; when it
\* has returned, the last event it published is finish; the handling of a
\* finish event removes the chat's aggregator; and after the return every
\* event of the call is handled and the chat has no aggregator.
C38_ReturnsAndCleansUp ==
    /\ \A c \in Chats :
          (sessPc[c] \in {"loop", "send", "stream", "tools", "exec", "finish"})
              ~> (sessPc[c] = "done")
    /\ [](\A c \in Chats :
            sessPc[c] = "done" =>
                /\ published[c] # <<>>
                /\ published[c][Len(published[c])].Type = "finish"
                /\ \A i \in 1..(Len(published[c]) - 1) : published[c][i].Type # "finish")
    /\ [][\A c \in Chats :
            (handled'[c] # handled[c] /\ handled'[c][Len(handled'[c])].Type = "finish")
                => streamStates'[c] = NoState]_vars
    /\ \A c \in Chats :
          (sessPc[c] = "done")
              ~> (handled[c] = published[c] /\ streamStates[c] = NoState)

\* The call ran a tool, returned nil, and its finish event was handled: the
\* entry the inbound message had stored is gone
C38_Witness ==
    /\ sessPc["1"] = "done" /\ returned["1"] = <<"">>
    /\ aggFed = 1
    /\ \E i \in DOMAIN messages["1"] : messages["1"][i].Role = "tool"
    /\ handled["1"] = published["1"]
    /\ handled["1"][Len(handled["1"])].Type = "finish"
    /\ streamStates["1"] = NoState


(* Properties of the conversation after a failed call *)

\* The roles of the messages of a history
Roles(msgs) == [k \in DOMAIN msgs |-> msgs[k].Role]

\* C39: a call of ProcessMessage whose streaming call failed leaves in the
\* conversation what it had appended: the history of a failed call ends
\* with the user message of the call (after the system prompt, when the
\* call added it) or with the tool messages of its last complete iteration,
\* never with an assistant message of the failed iteration; the next call
\* appends its user message after them; and no step without Clear removes
\* or changes a message (a history that has reached the bound MaxHistory of
\* the model is left out).
C39_NoRollback ==
    /\ [](\A c \in Chats :
            (sessPc[c] \in {"finish", "done"} /\ sessErr[c] = "provider") =>
                LET msgs == messages[sessOf[c]]
                IN  /\ msgs # <<>>
                    /\ msgs[Len(msgs)].Role \in {"user", "tool"}
                    /\ \E i \in DOMAIN msgs : msgs[i].Role = "user")
    /\ [][\A c \in Chats :
            (sessPc[c] = "done" /\ sessErr[c] = "provider" /\ sessPc'[c] = "loop") =>
                messages'[sessOf[c]] =
                    Append(messages[sessOf[c]], Message("user", <<"u">>, <<>>, ""))]_vars
    /\ [][\A s \in Chats :
            Len(messages'[s]) < MaxHistory =>
                /\ Len(messages'[s]) >= Len(messages[s])
                /\ SubSeq(messages'[s], 1, Len(messages[s])) = messages[s]]_vars

\* The first call failed at its first model call; the second call has
\* appended its user message after the prompt and the first user message
C39_Witness ==
    /\ returned["1"] = <<"provider">>
    /\ sessPc["1"] = "send"
    /\ Roles(messages["1"]) = <<"system", "user", "user">>


(* Properties of a cancelled call *)

\* C40: a call of ProcessMessage that is at the top of its loop with its ctx
\* cancelled opens no model call, and eventually returns the error of the
\* cancellation, whether or not the stream channel has room.
C40_CancelledCallReturns ==
    /\ [][\A c \in Chats :
            (ctxDone[c] /\ sessPc[c] = "loop") => sessPc'[c] \in {"loop", "finish"}]_vars
    /\ \A c \in Chats :
          (ctxDone[c] /\ sessPc[c] = "loop")
              ~> (/\ sessPc[c] = "done"
                  /\ returned[c] # <<>>
                  /\ returned[c][Len(returned[c])] = "context canceled")

=============================================================================
